---- MODULE Spec2Model ----
(***************************************************************************)
(* Credit metering subsystem of the voice-notes application:               *)
(*   js/creditManager.js      CreditManager (in-memory balance, mutations) *)
(*   js/creditStorage.js      CreditStorage (IndexedDB stores)             *)
(*   js/creditSecurity.js     CreditSecurity (encryption, integrity hash)  *)
(*   js/creditIntegration.js  CreditIntegration (credit-gated wrappers)    *)
(*                                                                         *)
(* JavaScript runs one job at a time: the code between two awaits is one   *)
(* atomic step.  Every asynchronous call (a "call" below) is a record      *)
(* with a program counter; one action of the model is one such step.       *)
(* Calls are numbered in the order they are issued and keep their outcome  *)
(* after they settle.                                                      *)
(***************************************************************************)
EXTENDS Integers, Sequences, FiniteSets, TLC

\* ------------------------------------------------------------- bounds
\* Number of asynchronous calls issued in one behaviour.
MaxCalls == 3
\* Number of calls in flight (suspended at an await) at the same time.
MaxOverlap == 2

\* ---------------------------------------------------- program constants
POLISH_TEXT == 3
TRANSLATE == 7
COMPLETE == 10
SMALL_CREDITS == 100
CREDIT_TO_CENT_RATE == 1

\* Arguments the callers are given in the model.
DeductCosts == {TRANSLATE}
DeductOps == {"translate"}
AddAmounts == {10, -5}
ResetBalances == {5}
PackageKeys == {"SMALL", "BOGUS", "toString"}
PaymentMethods == {"demo", "stripe"}
\* Balances a record left in the store by an earlier session may hold.
StoredBalances == {10}

CallIds == 1..MaxCalls

VARIABLES
    currentBalance,   \* CreditManager.currentBalance
    isInitialized,    \* CreditManager.isInitialized
    dbOpen,           \* CreditStorage.db # null
    credits,          \* object store 'credits', key 'main'
    transactions,     \* object store 'transactions', in key order
    txKey,            \* key generator of the 'transactions' store
    notified,         \* balances delivered by notifyBalanceChange, in order
    previewFor,       \* CreditUI: the call whose cost preview is on screen, or 0
    call,             \* the calls issued so far and their progress
    nCalls,           \* number of calls issued
    creditSettings,   \* object store 'creditSettings', by key
    backupCodes,      \* object store 'backupCodes', by code
    balanceChangeListeners,  \* CreditManager.balanceChangeListeners
    calledBack,       \* <<listener, balance>> of every listener call, in order
    originalFunctions,  \* CreditIntegration.originalFunctions, by key
    methods,          \* object[functionName] of every object
    lowBalanceWarning \* CreditUI: the low-balance warning, hidden or shown

vars == <<currentBalance, isInitialized, dbOpen, credits, transactions,
          txKey, notified, previewFor, call, nCalls, creditSettings,
          backupCodes, balanceChangeListeners, calledBack,
          originalFunctions, methods, lowBalanceWarning>>

store == <<dbOpen, credits, transactions, txKey>>
\* What the balance mutations and the ledger calls leave alone.
wrapping == <<originalFunctions, methods>>
aside == <<creditSettings, backupCodes, balanceChangeListeners, calledBack,
           originalFunctions, methods, lowBalanceWarning>>

\* --------------------------------------------------------- stored data
NoRecord == [kind |-> "absent", balance |-> 0]
\* A record that does not decrypt or fails the integrity check.
CorruptRecord == [kind |-> "corrupt", balance |-> 0]
\* The record saveCreditBalance(balance) puts under key 'main'.
BalanceRecord(balance) == [kind |-> "valid", balance |-> balance]

\* The record logTransaction adds.
Transaction(key, type, amount, operation, previousBalance, newBalance) ==
    [id |-> key, type |-> type, amount |-> amount, operation |-> operation,
     previousBalance |-> previousBalance, newBalance |-> newBalance]

\* --------------------------------------------------------------- calls
Blank ==
    [kind |-> "none", mut |-> "none", op |-> "none", amt |-> 0, pc |-> "idle",
     prev |-> 0, val |-> 0, got |-> "none", ready |-> FALSE,
     confirmed |-> "none", f1 |-> "none", f2 |-> "none", fCalls |-> 0,
     outcome |-> "none"]

\* A settled call: its locals are gone; its kind, its argument (for
\* initialize: the balance it loaded), what the user and the wrapped
\* function answered and its outcome are kept.
Finish(c, outcome) ==
    [Blank EXCEPT !.pc = "done", !.kind = c.kind, !.amt = c.amt,
                  !.ready = c.ready, !.confirmed = c.confirmed,
                  !.f1 = c.f1, !.f2 = c.f2, !.fCalls = c.fCalls,
                  !.outcome = outcome]

NewCall(kind, op, amt) ==
    [Blank EXCEPT !.kind = kind, !.op = op, !.amt = amt, !.ready = isInitialized]

InFlight(i) == call[i].pc \notin {"idle", "done"}

\* The outcomes that reach the caller as a thrown error (a rejected promise);
\* every other outcome is a value the call returns.
Thrown ==
    {"insufficient", "saveFailed", "logFailed", "openFailed", "threw",
     "invalidPackage", "paymentFailed", "clearFailed", "invalidFormat",
     "useFailed", "saveCodesFailed"}

\* A caller issues the next call.
CanCall ==
    /\ nCalls < MaxCalls
    /\ Cardinality({i \in CallIds : InFlight(i)}) < MaxOverlap
next == nCalls + 1
\* Date.now(): a clock that ticks with every call issued.
Now == next
Quiescent == \A i \in CallIds : ~InFlight(i)

\* ------------------------------------------------------- CreditManager
\* Mutant: the check asks for some credit, not for enough credit.
hasSufficientCredits_AnyCredit(balance, cost) == balance > 0

hasSufficientCredits(balance, cost) == balance >= cost

KnownOperations == {"polish", "translate", "complete"}

\* Mutant: every known operation costs the same.
getCost_Flat(operation) ==
    IF operation \in KnownOperations THEN POLISH_TEXT ELSE -1

\* The cost of an operation; -1 stands for the thrown 'Unknown operation'.
getCost(operation) ==
    CASE operation = "polish" -> POLISH_TEXT
      [] operation = "translate" -> TRANSLATE
      [] operation = "complete" -> COMPLETE
      [] OTHER -> -1

\* Mutant: the catch block does not restore the balance.
RollbackBalance_Kept(previousBalance, balance) == balance

\* The balance the catch block of deductCredits / addCredits leaves.
RollbackBalance(previousBalance, balance) == previousBalance

\* Mutant: the cost is added instead of subtracted.
DeductedBalance_Added(balance, cost) == balance + cost

\* The balance deductCredits sets before it saves.
DeductedBalance(balance, cost) == balance - cost

\* The operation names a caller asks a preview for.
PreviewOperations == KnownOperations \cup {"summarize"}

\* The object getCostPreview returns.
getCostPreview(balance, operation) ==
    LET cost == getCost(operation)
        sufficient == hasSufficientCredits(balance, cost)
    IN [operation |-> operation, cost |-> cost,
        costInCents |-> cost * CREDIT_TO_CENT_RATE,
        currentBalance |-> balance, sufficient |-> sufficient,
        balanceAfter |-> IF sufficient THEN [number |-> balance - cost]
                         ELSE [null |-> TRUE]]

\* A call of getCostPreview: synchronous, it has returned or thrown when it
\* is issued.
PreviewCall(operation, outcome, preview) ==
    [kind |-> "getCostPreview", pc |-> "done", operation |-> operation,
     outcome |-> outcome, preview |-> preview]

GetCostPreview ==
    /\ CanCall
    /\ \E operation \in PreviewOperations :
         call' = [call EXCEPT ![next] =
             IF getCost(operation) < 0
             THEN PreviewCall(operation, "threw", [null |-> TRUE])
             ELSE PreviewCall(operation, "returned",
                              getCostPreview(currentBalance, operation))]
    /\ nCalls' = next
    /\ UNCHANGED <<currentBalance, isInitialized, store, notified, previewFor>>
    /\ UNCHANGED aside

\* notifyBalanceChange: every listener is handed the current balance.
Notify(balance) == Append(notified, balance)

\* The listeners the application registers in the model, and the one whose
\* callback throws.
Listeners == {"display", "faulty"}
Throws(listener) == listener = "faulty"

\* Mutant: the loop ends at the first listener that throws.
RECURSIVE Reached_UntilThrow(_)
Reached_UntilThrow(listeners) ==
    IF listeners = <<>> THEN <<>>
    ELSE IF Throws(Head(listeners)) THEN <<Head(listeners)>>
    ELSE <<Head(listeners)>> \o Reached_UntilThrow(Tail(listeners))

\* The listeners forEach reaches: each callback runs inside try/catch.
Reached(listeners) == listeners

\* isRunningLow(threshold): this.currentBalance < threshold.
isRunningLow(balance, threshold) == balance < threshold

\* CreditUI.updateBalanceDisplay(delivered), the manager holding balance:
\* what becomes of the low-balance warning.  It hands the balance it was
\* given to isRunningLow, whose parameter is the threshold;
\* showLowBalanceWarning removes the class 'hidden'.
updateBalanceDisplay(warning, balance, delivered) ==
    IF isRunningLow(balance, delivered) THEN "shown" ELSE warning

\* The warning after notifyBalanceChange has run with that balance:
\* the listener of CreditUI is "display".
Displayed(balance) ==
    IF \E k \in 1..Len(Reached(balanceChangeListeners)) :
           Reached(balanceChangeListeners)[k] = "display"
    THEN updateBalanceDisplay(lowBalanceWarning, balance, balance)
    ELSE lowBalanceWarning

\* The objects whose methods are wrapped: two instances of one class, and
\* the key wrapFunction files their method under,
\* `${object.constructor.name}.${functionName}`.
Objects == {"appA", "appB"}
WrapKeys == {"App.translateText"}
WrapKey(object) == "App.translateText"

\* object[functionName] before any wrapping: the object's own method.
Original(object) == [wrapped |-> FALSE, target |-> object]

\* notifyBalanceChange: the listener calls it makes, in order.
Callbacks(balance) ==
    calledBack \o [k \in 1..Len(Reached(balanceChangeListeners)) |->
                      <<Reached(balanceChangeListeners)[k], balance>>]

\* onBalanceChange(callback): synchronous.
OnBalanceChange ==
    /\ \E listener \in Listeners :
           /\ \A k \in 1..Len(balanceChangeListeners) :
                  balanceChangeListeners[k] # listener
           /\ balanceChangeListeners' = Append(balanceChangeListeners, listener)
    /\ UNCHANGED <<currentBalance, isInitialized, store, notified, previewFor,
                   call, nCalls, creditSettings, backupCodes, calledBack>>
    /\ UNCHANGED <<wrapping, lowBalanceWarning>>

\* deductCredits up to its first await, run by call i whose record is c.
EnterDeduct(i, c, cost, operation) ==
    IF ~hasSufficientCredits(currentBalance, cost)
    THEN /\ call' = [call EXCEPT ![i] = Finish(c, "insufficient")]
         /\ UNCHANGED currentBalance
    ELSE /\ currentBalance' = DeductedBalance(currentBalance, cost)
         /\ call' = [call EXCEPT ![i] =
                [c EXCEPT !.pc = "save", !.mut = "deduct", !.op = operation,
                          !.amt = cost, !.prev = currentBalance,
                          !.val = DeductedBalance(currentBalance, cost)]]

\* JavaScript values that are not integers, as integers no balance or
\* amount of the model reaches: undefined, and NaN (not a number).
Undefined == -1000000
NaN == -2000000

\* Mutant: the amount is not added.
Sum_Ignored(balance, amount) == balance

\* balance + amount as JavaScript computes it: adding undefined or NaN
\* gives NaN.
Sum(balance, amount) ==
    IF balance \in {Undefined, NaN} \/ amount \in {Undefined, NaN}
    THEN NaN
    ELSE balance + amount

\* addCredits up to its first await.
EnterAdd(i, c, amount, source) ==
    /\ currentBalance' = Sum(currentBalance, amount)
    /\ call' = [call EXCEPT ![i] =
           [c EXCEPT !.pc = "save", !.mut = "add", !.op = source,
                     !.amt = amount, !.prev = currentBalance,
                     !.val = Sum(currentBalance, amount)]]

\* resetCredits up to its first await.
EnterReset(i, c, newBalance) ==
    /\ currentBalance' = newBalance
    /\ call' = [call EXCEPT ![i] =
           [c EXCEPT !.pc = "save", !.mut = "reset", !.op = "admin_reset",
                     !.amt = newBalance, !.prev = currentBalance,
                     !.val = newBalance]]

StartDeduct ==
    /\ CanCall
    /\ \E cost \in DeductCosts, operation \in DeductOps :
           EnterDeduct(next, NewCall("deduct", operation, cost), cost, operation)
    /\ nCalls' = next
    /\ UNCHANGED <<isInitialized, store, notified, previewFor>>
    /\ UNCHANGED aside

StartAdd ==
    /\ CanCall
    /\ \E amount \in AddAmounts :
           EnterAdd(next, NewCall("add", "purchase", amount), amount, "purchase")
    /\ nCalls' = next
    /\ UNCHANGED <<isInitialized, store, notified, previewFor>>
    /\ UNCHANGED aside

StartReset ==
    /\ CanCall
    /\ \E newBalance \in ResetBalances :
           EnterReset(next, NewCall("reset", "admin_reset", newBalance), newBalance)
    /\ nCalls' = next
    /\ UNCHANGED <<isInitialized, store, notified, previewFor>>
    /\ UNCHANGED aside

\* What the settled mutation hands to its caller.
MutationDone(c) == Finish(c, "ok")

\* Mutant: reset logs its argument instead of the delta.
LogAmount_Argument(c) == c.amt

\* The amount and balances the mutation writes to the log; the new balance
\* is read from this.currentBalance when logTransaction is called (reset
\* passes its argument).
LogAmount(c) == IF c.mut = "reset" THEN c.amt - c.prev ELSE c.amt
LogType(c) ==
    CASE c.mut = "deduct" -> "deduction"
      [] c.mut = "add" -> "purchase"
      [] OTHER -> "reset"

\* saveBalance settles for call i (awaited by a mutation).
SaveBalance(i) ==
    /\ call[i].pc = "save"
    /\ \/ \* the put succeeds; the mutation goes on to logTransaction
          /\ dbOpen
          /\ credits' = BalanceRecord(call[i].val)
          /\ call' = [call EXCEPT ![i] =
                 [@ EXCEPT !.pc = "log",
                           !.val = IF call[i].mut = "reset" THEN call[i].amt
                                    ELSE currentBalance]]
          /\ UNCHANGED currentBalance
       \/ \* the save fails (always so with the database not opened)
          /\ UNCHANGED credits
          /\ IF call[i].mut = "reset"
             THEN UNCHANGED currentBalance
             ELSE currentBalance' = RollbackBalance(call[i].prev, currentBalance)
          /\ call' = [call EXCEPT ![i] = Finish(@, "saveFailed")]
    /\ UNCHANGED <<isInitialized, dbOpen, transactions, txKey, notified,
                   previewFor, nCalls>>
    /\ UNCHANGED aside

\* Mutant: the key generator hands out the same key again.
NextKey_Same(key) == key

\* The key generator of the 'transactions' store (autoIncrement).
NextKey(key) == key + 1

\* logTransaction settles for call i.
LogTransaction(i) ==
    /\ call[i].pc = "log"
    /\ \/ \* the add succeeds: notify, return
          /\ dbOpen
          /\ transactions' = Append(transactions,
                 Transaction(txKey, LogType(call[i]), LogAmount(call[i]),
                             call[i].op, call[i].prev, call[i].val))
          /\ txKey' = NextKey(txKey)
          /\ notified' = Notify(currentBalance)
          /\ calledBack' = Callbacks(currentBalance)
          /\ lowBalanceWarning' = Displayed(currentBalance)
          /\ call' = [call EXCEPT ![i] = MutationDone(@)]
          /\ UNCHANGED currentBalance
       \/ \* the add fails
          /\ UNCHANGED <<transactions, txKey, notified, calledBack,
                         lowBalanceWarning>>
          /\ IF call[i].mut = "reset"
             THEN UNCHANGED currentBalance
             ELSE currentBalance' = RollbackBalance(call[i].prev, currentBalance)
          /\ call' = [call EXCEPT ![i] = Finish(@, "logFailed")]
    /\ UNCHANGED <<isInitialized, dbOpen, credits, previewFor, nCalls,
                   creditSettings, backupCodes, balanceChangeListeners>>
    /\ UNCHANGED wrapping

\* The keys of CREDIT_PACKAGES.
CatalogKeys == {"SMALL"}
\* CREDIT_PACKAGES is an object literal: a lookup also finds the members it
\* inherits from Object.prototype, which are functions.
InheritedKeys == {"toString"}

\* package_.credits for the package_ the lookup gives.
PackageCredits(packageKey) ==
    CASE packageKey = "SMALL" -> SMALL_CREDITS
      [] packageKey \in InheritedKeys -> Undefined
      [] OTHER -> 0

\* The keys whose lookup passes `if (!package_)`.
ValidPackages == CatalogKeys \cup InheritedKeys

\* purchaseCredits up to its first await.

StartPurchase ==
    /\ CanCall
    /\ \E packageKey \in PackageKeys, paymentMethod \in PaymentMethods :
         LET c == NewCall("purchase", packageKey, PackageCredits(packageKey)) IN
           IF packageKey \notin ValidPackages
           THEN call' = [call EXCEPT ![next] = Finish(c, "invalidPackage")]
           ELSE IF paymentMethod # "demo"
           THEN call' = [call EXCEPT ![next] = Finish(c, "paymentFailed")]
           ELSE call' = [call EXCEPT ![next] = [c EXCEPT !.pc = "pay"]]
    /\ nCalls' = next
    /\ UNCHANGED <<currentBalance, isInitialized, store, notified, previewFor>>
    /\ UNCHANGED aside

\* simulatePayment resolves; purchaseCredits calls addCredits.
PaymentDone(i) ==
    /\ call[i].pc = "pay"
    /\ EnterAdd(i, call[i], call[i].amt, "purchase")
    /\ UNCHANGED <<isInitialized, store, notified, previewFor, nCalls>>
    /\ UNCHANGED aside

\* clearAllData up to its first await.
StartClear ==
    /\ CanCall
    /\ call' = [call EXCEPT ![next] = [NewCall("clear", "none", 0) EXCEPT !.pc = "clear"]]
    /\ nCalls' = next
    /\ UNCHANGED <<currentBalance, isInitialized, store, notified, previewFor>>
    /\ UNCHANGED aside

\* Mutant: clear() leaves the store as it is.
Clear_Nothing(objectStore) == objectStore

\* store.clear().
Clear(objectStore) == <<>>

\* storage.clearAllData settles: one clear() per store, each its own
\* transaction, joined by Promise.all.
ClearStores(i) ==
    /\ call[i].pc = "clear"
    /\ \/ \* every store cleared
          /\ dbOpen
          /\ credits' = NoRecord
          /\ transactions' = Clear(transactions)
          /\ creditSettings' = Clear(creditSettings)
          /\ backupCodes' = Clear(backupCodes)
          /\ currentBalance' = 0
          /\ notified' = Notify(0)
          /\ calledBack' = Callbacks(0)
          /\ lowBalanceWarning' = Displayed(0)
          /\ call' = [call EXCEPT ![i] = Finish(@, "ok")]
       \/ \* at least one clear fails; the others may have gone through
          /\ \E clearedCredits, clearedLog, clearedSettings, clearedCodes
                    \in BOOLEAN :
               /\ (clearedCredits \/ clearedLog \/ clearedSettings
                      \/ clearedCodes) => dbOpen
               /\ ~(clearedCredits /\ clearedLog /\ clearedSettings
                      /\ clearedCodes)
               /\ credits' = IF clearedCredits THEN NoRecord ELSE credits
               /\ transactions' =
                      IF clearedLog THEN Clear(transactions) ELSE transactions
               /\ creditSettings' =
                      IF clearedSettings THEN Clear(creditSettings)
                      ELSE creditSettings
               /\ backupCodes' =
                      IF clearedCodes THEN Clear(backupCodes) ELSE backupCodes
          /\ UNCHANGED <<currentBalance, notified, calledBack,
                         lowBalanceWarning>>
          /\ call' = [call EXCEPT ![i] = Finish(@, "clearFailed")]
    /\ UNCHANGED <<isInitialized, dbOpen, txKey, previewFor, nCalls,
                   balanceChangeListeners>>
    /\ UNCHANGED wrapping

\* ---------------------------------------------------------- backup codes
\* The codes generateBackupCodes draws in the model (16 uppercase hex
\* characters), and what a user may type into useBackupCode.
Codes == {"A1B2C3D4E5F60718", "0F0F0F0F0F0F0F0F"}
TypedCodes == Codes \cup {"a1b2c3d4e5f60718", "not-a-code"}

toUpperCase(code) ==
    CASE code = "a1b2c3d4e5f60718" -> "A1B2C3D4E5F60718"
      [] code = "not-a-code" -> "NOT-A-CODE"
      [] OTHER -> code

\* /^[A-F0-9]{16}$/ on the upper-cased code.
isValidBackupCode(code) == toUpperCase(code) \in Codes

\* The record saveBackupCodes puts for a code.
BackupRecord(code, created) ==
    [code |-> code, created |-> created, used |-> FALSE]
\* The record useBackupCode puts back.
UsedRecord(record, usedAt) ==
    [code |-> record.code, created |-> record.created, used |-> TRUE,
     usedAt |-> usedAt]

\* Mutant: the store holds the new codes only.
PutCodes_Only(objectStore, codes, created) ==
    [code \in codes |-> BackupRecord(code, created)]

\* store.put of one record per code: a stored code is replaced.
PutCodes(objectStore, codes, created) ==
    [code \in DOMAIN objectStore \cup codes |->
        IF code \in codes THEN BackupRecord(code, created)
        ELSE objectStore[code]]

\* A settled generateBackupCodes / useBackupCode keeps its argument.
RecoveryDone(c, outcome) == [Finish(c, outcome) EXCEPT !.op = c.op]

\* generateBackupCodes up to its await: the codes are drawn and
\* saveBackupCodes opens its transaction, or throws with no database.
StartGenerate ==
    /\ CanCall
    /\ LET c == NewCall("generate", "none", 0) IN
         IF dbOpen
         THEN call' = [call EXCEPT ![next] = [c EXCEPT !.pc = "saveCodes"]]
         ELSE call' = [call EXCEPT ![next] = Finish(c, "saveCodesFailed")]
    /\ nCalls' = next
    /\ UNCHANGED <<currentBalance, isInitialized, store, notified, previewFor>>
    /\ UNCHANGED aside

\* The puts of saveBackupCodes settle.  The codes getRandomValues drew are
\* seen by nobody before this step, so they are drawn here; one failing put
\* aborts the transaction.
SaveCodes(i) ==
    /\ call[i].pc = "saveCodes"
    /\ \/ \E codes \in (SUBSET Codes) \ {{}} :
             /\ backupCodes' = PutCodes(backupCodes, codes, Now)
             /\ call' = [call EXCEPT ![i] = Finish(@, "ok")]
       \/ /\ UNCHANGED backupCodes
          /\ call' = [call EXCEPT ![i] = Finish(@, "saveCodesFailed")]
    /\ UNCHANGED <<currentBalance, isInitialized, store, notified, previewFor,
                   nCalls, creditSettings, balanceChangeListeners, calledBack>>
    /\ UNCHANGED <<wrapping, lowBalanceWarning>>

\* useBackupCode up to its await.
StartUse ==
    /\ CanCall
    /\ \E code \in TypedCodes :
         LET c == NewCall("use", code, 0) IN
           IF ~isValidBackupCode(code)
           THEN call' = [call EXCEPT ![next] = RecoveryDone(c, "invalidFormat")]
           ELSE IF ~dbOpen
           THEN call' = [call EXCEPT ![next] = RecoveryDone(c, "useFailed")]
           ELSE call' = [call EXCEPT ![next] = [c EXCEPT !.pc = "use"]]
    /\ nCalls' = next
    /\ UNCHANGED <<currentBalance, isInitialized, store, notified, previewFor>>
    /\ UNCHANGED aside

\* Mutant: a code that is already used is accepted again.
Redeemable_Stored(objectStore, key) == key \in DOMAIN objectStore

\* The test of useBackupCode on the record its get found.
Redeemable(objectStore, key) ==
    key \in DOMAIN objectStore /\ ~objectStore[key].used

\* The get of useBackupCode and, for an unused code, its put settle (one
\* transaction).
UseSettles(i) ==
    /\ call[i].pc = "use"
    /\ LET key == toUpperCase(call[i].op) IN
         \/ /\ ~Redeemable(backupCodes, key)
            /\ UNCHANGED backupCodes
            /\ call' = [call EXCEPT ![i] = RecoveryDone(@, "false")]
         \/ /\ Redeemable(backupCodes, key)
            /\ backupCodes' = [backupCodes EXCEPT
                                  ![key] = UsedRecord(@, Now)]
            /\ call' = [call EXCEPT ![i] = RecoveryDone(@, "true")]
         \/ \* the get or the put fails
            /\ UNCHANGED backupCodes
            /\ call' = [call EXCEPT ![i] = RecoveryDone(@, "useFailed")]
    /\ UNCHANGED <<currentBalance, isInitialized, store, notified, previewFor,
                   nCalls, creditSettings, balanceChangeListeners, calledBack>>
    /\ UNCHANGED <<wrapping, lowBalanceWarning>>

\* The settings a caller of saveSetting stores in the model.
SettingKeys == {"lowBalanceWarning"}
\* saveSetting(key, value): its put, when it succeeds.
SaveSetting ==
    /\ dbOpen
    /\ \E key \in SettingKeys :
           /\ key \notin DOMAIN creditSettings
           /\ creditSettings' =
                  [k \in DOMAIN creditSettings \cup {key} |->
                      IF k = key THEN [key |-> key, value |-> TRUE]
                      ELSE creditSettings[k]]
    /\ UNCHANGED <<currentBalance, isInitialized, store, notified, previewFor,
                   call, nCalls, backupCodes, balanceChangeListeners,
                   calledBack>>
    /\ UNCHANGED <<wrapping, lowBalanceWarning>>

\* Mutant: initialize does not look at isInitialized.
StartInitialize_Always ==
    /\ CanCall
    /\ call' = [call EXCEPT ![next] = [NewCall("init", "none", 0) EXCEPT !.pc = "open"]]
    /\ nCalls' = next
    /\ UNCHANGED <<currentBalance, isInitialized, store, notified, previewFor>>
    /\ UNCHANGED aside

\* initialize up to its first await.
StartInitialize ==
    /\ CanCall
    /\ LET c == NewCall("init", "none", 0) IN
         IF isInitialized
         THEN call' = [call EXCEPT ![next] = Finish(c, "noop")]
         ELSE call' = [call EXCEPT ![next] = [c EXCEPT !.pc = "open"]]
    /\ nCalls' = next
    /\ UNCHANGED <<currentBalance, isInitialized, store, notified, previewFor>>
    /\ UNCHANGED aside

\* Mutant: a database that does not open is taken for an empty one.
OpenDb_AssumesDefault(i) ==
    /\ call[i].pc = "open"
    /\ \/ /\ dbOpen' = TRUE
          /\ call' = [call EXCEPT ![i] = [@ EXCEPT !.pc = "read"]]
          /\ UNCHANGED currentBalance
       \/ /\ UNCHANGED dbOpen
          /\ currentBalance' = 0
          /\ call' = [call EXCEPT ![i] = [@ EXCEPT !.pc = "save0b", !.got = "error"]]
    /\ UNCHANGED <<isInitialized, credits, transactions, txKey, notified,
                   previewFor, nCalls>>
    /\ UNCHANGED aside

\* storage.init settles; on success initialize computes the fingerprint and
\* loadBalance issues the get of the 'main' record.
OpenDb(i) ==
    /\ call[i].pc = "open"
    /\ \/ /\ dbOpen' = TRUE
          /\ call' = [call EXCEPT ![i] = [@ EXCEPT !.pc = "read"]]
       \/ /\ UNCHANGED dbOpen
          /\ call' = [call EXCEPT ![i] = Finish(@, "openFailed")]
    /\ UNCHANGED <<currentBalance, isInitialized, credits, transactions,
                   txKey, notified, previewFor, nCalls>>
    /\ UNCHANGED aside

\* The get request of getCreditBalance settles.
ReadBalance(i) ==
    /\ call[i].pc = "read"
    /\ \/ \* a record: it is decrypted and verified next
          /\ credits.kind # "absent"
          /\ call' = [call EXCEPT ![i] =
                 [@ EXCEPT !.pc = "load", !.got = credits.kind,
                           !.val = credits.balance]]
          /\ UNCHANGED currentBalance
       \/ \* no record: loadBalance starts with 0 and saves it
          /\ credits.kind = "absent"
          /\ currentBalance' = 0
          /\ call' = [call EXCEPT ![i] =
                 [@ EXCEPT !.pc = "save0a", !.got = "absent", !.val = 0,
                           !.amt = 0]]
       \/ \* the request fails: the catch of loadBalance saves 0
          /\ currentBalance' = 0
          /\ call' = [call EXCEPT ![i] =
                 [@ EXCEPT !.pc = "save0b", !.got = "error", !.val = 0,
                           !.amt = 0]]
    /\ UNCHANGED <<isInitialized, store, notified, previewFor, nCalls>>
    /\ UNCHANGED aside

\* Mutant: loadBalance lets the failure of getCreditBalance through.
LoadBalance_Rethrows(i) ==
    /\ call[i].pc = "load"
    /\ IF call[i].got = "valid"
       THEN /\ currentBalance' = call[i].val
            /\ call' = [call EXCEPT ![i] =
                   [@ EXCEPT !.pc = "persist", !.amt = call[i].val, !.val = 0]]
       ELSE /\ UNCHANGED currentBalance
            /\ call' = [call EXCEPT ![i] = Finish(@, "loadFailed")]
    /\ UNCHANGED <<isInitialized, store, notified, previewFor, nCalls>>
    /\ UNCHANGED aside

\* Decryption and the integrity check settle; loadBalance resumes.
LoadBalance(i) ==
    /\ call[i].pc = "load"
    /\ IF call[i].got = "valid"
       THEN /\ currentBalance' = call[i].val
            /\ call' = [call EXCEPT ![i] =
                   [@ EXCEPT !.pc = "persist", !.amt = call[i].val, !.val = 0]]
       ELSE /\ currentBalance' = 0
            /\ call' = [call EXCEPT ![i] =
                   [@ EXCEPT !.pc = "save0b", !.amt = 0, !.val = 0]]
    /\ UNCHANGED <<isInitialized, store, notified, previewFor, nCalls>>
    /\ UNCHANGED aside

\* The saveBalance of loadBalance settles (save0a: in the try block,
\* save0b: in the catch block).
SaveDefault(i) ==
    /\ call[i].pc \in {"save0a", "save0b"}
    /\ \/ /\ dbOpen
          /\ credits' = BalanceRecord(call[i].val)
          /\ call' = [call EXCEPT ![i] = [@ EXCEPT !.pc = "persist", !.val = 0]]
          /\ UNCHANGED currentBalance
       \/ /\ call[i].pc = "save0a"
          /\ currentBalance' = 0
          /\ call' = [call EXCEPT ![i] = [@ EXCEPT !.pc = "save0b", !.val = 0]]
          /\ UNCHANGED credits
       \/ /\ call[i].pc = "save0b"
          /\ call' = [call EXCEPT ![i] = Finish(@, "saveFailed")]
          /\ UNCHANGED <<currentBalance, credits>>
    /\ UNCHANGED <<isInitialized, dbOpen, transactions, txKey, notified,
                   previewFor, nCalls>>
    /\ UNCHANGED aside

\* requestPersistentStorage settles (it never throws); initialize is done.
RequestPersistent(i) ==
    /\ call[i].pc = "persist"
    /\ isInitialized' = TRUE
    /\ call' = [call EXCEPT ![i] = Finish(@, "ok")]
    /\ UNCHANGED <<currentBalance, store, notified, previewFor, nCalls>>
    /\ UNCHANGED aside

\* --------------------------------------------------- CreditIntegration
\* The wrappers and the operation each is bound to in the model.
\* "summarize" is no operation getCost knows.
Wrappers ==
    {<<"wrapFunction", "translate">>, <<"wrapFunction", "summarize">>,
     <<"wrapComplete", "complete">>, <<"button", "translate">>,
     <<"voice", "complete">>}
WrapperKinds == {"wrapFunction", "wrapComplete", "button", "voice"}
\* wrapFunction and wrapCompleteWorkflowFunction share their catch block.
Retrying == {"wrapFunction", "wrapComplete"}

\* What the wrapped function f may do: return an object, null, false, or
\* throw an error whose message does or does not contain "credits".
FReturns == {"value", "null", "false"}
FThrows == {"throwCredits", "throwOther"}
FResults == FReturns \cup FThrows

\* Mutant: the wrapper goes on without looking at the balance.
GateOpen_Always(balance, cost) == TRUE

\* The sufficiency check the wrappers make before anything else.
GateOpen(balance, cost) == hasSufficientCredits(balance, cost)

\* Mutant: the answer to the cost preview is ignored.
Proceeds_Always(confirmed) == TRUE

\* Whether the wrapper goes on to invoke f after the cost preview.
Proceeds(confirmed) == confirmed

\* Whether the wrapper charges for the result r of f.
ChargesFor(kind, r) ==
    CASE kind \in Retrying -> r # "null"
      [] kind = "button" -> r # "false"
      [] OTHER -> r = "value"

\* A wrapped function is called: up to the first await.
StartWrapped ==
    /\ CanCall
    /\ \E w \in Wrappers :
         LET kind == w[1]
             operation == w[2]
             cost == getCost(operation)
             c == NewCall(kind, operation, cost)
         IN  IF operation \notin KnownOperations
             THEN \* getCost throws; the catch block invokes f all the same
                  /\ call' = [call EXCEPT ![next] =
                         [c EXCEPT !.pc = "f2", !.fCalls = 1]]
                  /\ UNCHANGED previewFor
             ELSE IF ~GateOpen(currentBalance, cost)
             THEN \* wrapFunction / wrapComplete throw, the others return
                  /\ call' = [call EXCEPT ![next] =
                         Finish(c, IF kind \in Retrying THEN "insufficient"
                                                        ELSE "absent")]
                  /\ UNCHANGED previewFor
             ELSE \* creditUI.getCostPreview shows the modal
                  /\ call' = [call EXCEPT ![next] = [c EXCEPT !.pc = "preview"]]
                  /\ previewFor' = next
    /\ nCalls' = next
    /\ UNCHANGED <<currentBalance, isInitialized, store, notified>>
    /\ UNCHANGED aside

\* The user answers the cost preview on screen; its promise resolves.
AnswerPreview(i) ==
    /\ call[i].pc = "preview"
    /\ previewFor = i
    /\ previewFor' = 0
    /\ \E confirmed \in BOOLEAN :
         IF Proceeds(confirmed)
         THEN call' = [call EXCEPT ![i] =
                  [@ EXCEPT !.pc = "f", !.fCalls = 1,
                            !.confirmed = IF confirmed THEN "yes" ELSE "no"]]
         ELSE call' = [call EXCEPT ![i] =
                  Finish([@ EXCEPT !.confirmed = "no"], "declined")]
    /\ UNCHANGED <<currentBalance, isInitialized, store, notified, nCalls>>
    /\ UNCHANGED aside

\* The first invocation of f settles.
FirstSettles(i) ==
    /\ call[i].pc = "f"
    /\ \E r \in FResults :
         LET c == [call[i] EXCEPT !.f1 = r] IN
           IF r \in FReturns
           THEN IF ChargesFor(c.kind, r)
                THEN EnterDeduct(i, c, c.amt, c.op)
                ELSE /\ call' = [call EXCEPT ![i] = Finish(c, "returned")]
                     /\ UNCHANGED currentBalance
           ELSE IF c.kind \in Retrying /\ r = "throwOther"
                THEN \* the catch block invokes f again
                     /\ call' = [call EXCEPT ![i] =
                            [c EXCEPT !.pc = "f2", !.fCalls = 2]]
                     /\ UNCHANGED currentBalance
                ELSE /\ call' = [call EXCEPT ![i] = Finish(c, "threw")]
                     /\ UNCHANGED currentBalance
    /\ UNCHANGED <<isInitialized, store, notified, previewFor, nCalls>>
    /\ UNCHANGED aside

\* The invocation of f made by the catch block settles.
RetrySettles(i) ==
    /\ call[i].pc = "f2"
    /\ \E r \in FResults :
         call' = [call EXCEPT ![i] =
             Finish([@ EXCEPT !.f2 = r],
                    IF r \in FReturns THEN "returned" ELSE "threw")]
    /\ UNCHANGED <<currentBalance, isInitialized, store, notified,
                   previewFor, nCalls>>
    /\ UNCHANGED aside

\* The wrappers with the arguments of each call and the metadata object
\* they hand to deductCredits.
MeteredWrappers == {<<"wrapFunction", "translate">>, <<"voice", "complete">>}

\* What a caller passes: texts to the wrapped translation function,
\* recordings (or nothing) to the wrapped recording processor.
Texts == {"noteA", "noteB"}
Recordings == [duration : {5, 60}, audio : {"clipA", "clipB"}]
MeteredArgs(kind) ==
    IF kind = "wrapFunction"
    THEN {<<>>} \cup {<<t>> : t \in Texts}
    ELSE {<<>>} \cup {<<r>> : r \in Recordings}

\* The object the wrapper builds for deductCredits once f has succeeded.
\* wrapFunction: the metadata bound by wrapTranslationFunction, the time and
\* args.length.  wrapVoiceRecording: the time and
\* args[0] ? args[0].duration : 'unknown'.
WrapperMetadata(kind, args, timestamp) ==
    IF kind = "wrapFunction"
    THEN [type |-> "translation", source |-> "user_text",
          timestamp |-> timestamp, args |-> Len(args), success |-> TRUE]
    ELSE [type |-> "voice_processing", timestamp |-> timestamp,
          recordingDuration |-> IF Len(args) > 0
                                THEN [number |-> args[1].duration]
                                ELSE [unknown |-> TRUE]]

\* A wrapped call together with its arguments and, once built, its metadata.
MeteredCall(kind, operation, cost, args) ==
    NewCall(kind, operation, cost) @@ [args |-> args, meta |-> [none |-> TRUE]]

\* The record logTransaction adds, with the metadata and the time of the add.
TransactionWith(record, metadata, timestamp) ==
    record @@ [metadata |-> metadata, timestamp |-> timestamp]

\* A wrapped function is called with arguments: up to the first await.
StartMetered ==
    /\ CanCall
    /\ \E w \in MeteredWrappers : \E args \in MeteredArgs(w[1]) :
         LET kind == w[1]
             operation == w[2]
             cost == getCost(operation)
             c == MeteredCall(kind, operation, cost, args)
         IN  IF ~GateOpen(currentBalance, cost)
             THEN /\ call' = [call EXCEPT ![next] =
                         Finish(c, IF kind \in Retrying THEN "insufficient"
                                                        ELSE "absent")]
                  /\ UNCHANGED previewFor
             ELSE /\ call' = [call EXCEPT ![next] = [c EXCEPT !.pc = "preview"]]
                  /\ previewFor' = next
    /\ nCalls' = next
    /\ UNCHANGED <<currentBalance, isInitialized, store, notified>>
    /\ UNCHANGED aside

\* f settles for a call with arguments; on success the wrapper builds the
\* metadata and enters deductCredits.
MeteredSettles(i) ==
    /\ call[i].pc = "f"
    /\ \E r \in FResults :
         LET c == [call[i] EXCEPT !.f1 = r,
                       !.meta = WrapperMetadata(call[i].kind, call[i].args, Now)]
         IN
           IF r \in FReturns
           THEN IF ChargesFor(c.kind, r)
                THEN EnterDeduct(i, c, c.amt, c.op)
                ELSE /\ call' = [call EXCEPT ![i] = Finish(c, "returned")]
                     /\ UNCHANGED currentBalance
           ELSE IF c.kind \in Retrying /\ r = "throwOther"
                THEN /\ call' = [call EXCEPT ![i] =
                            [call[i] EXCEPT !.f1 = r, !.pc = "f2", !.fCalls = 2]]
                     /\ UNCHANGED currentBalance
                ELSE /\ call' = [call EXCEPT ![i] = Finish(c, "threw")]
                     /\ UNCHANGED currentBalance
    /\ UNCHANGED <<isInitialized, store, notified, previewFor, nCalls>>
    /\ UNCHANGED aside

\* logTransaction settles for the deduction of a wrapped call.
LogMetered(i) ==
    /\ call[i].pc = "log"
    /\ \/ /\ dbOpen
          /\ transactions' = Append(transactions,
                 TransactionWith(
                     Transaction(txKey, LogType(call[i]), LogAmount(call[i]),
                                 call[i].op, call[i].prev, call[i].val),
                     call[i].meta, Now))
          /\ txKey' = NextKey(txKey)
          /\ notified' = Notify(currentBalance)
          /\ calledBack' = Callbacks(currentBalance)
          /\ lowBalanceWarning' = Displayed(currentBalance)
          /\ call' = [call EXCEPT ![i] = MutationDone(@)]
          /\ UNCHANGED currentBalance
       \/ /\ UNCHANGED <<transactions, txKey, notified, calledBack,
                         lowBalanceWarning>>
          /\ currentBalance' = RollbackBalance(call[i].prev, currentBalance)
          /\ call' = [call EXCEPT ![i] = Finish(@, "logFailed")]
    /\ UNCHANGED <<isInitialized, dbOpen, credits, previewFor, nCalls,
                   creditSettings, backupCodes, balanceChangeListeners>>
    /\ UNCHANGED wrapping

\* wrapFunction(object, functionName, 'translate'): the original is filed
\* under the key unless the key is taken, and object[functionName] becomes
\* a wrapper around whatever the key holds.
WrapFunction(object) ==
    LET key == WrapKey(object)
        filed == IF originalFunctions[key] = "none"
                 THEN methods[object].target
                 ELSE originalFunctions[key]
    IN /\ originalFunctions' = [originalFunctions EXCEPT ![key] = filed]
       /\ methods' = [methods EXCEPT ![object] =
                          [wrapped |-> TRUE, target |-> filed]]
       /\ UNCHANGED <<currentBalance, isInitialized, store, notified,
                      previewFor, call, nCalls, creditSettings, backupCodes,
                      balanceChangeListeners, calledBack, lowBalanceWarning>>

\* A call of a wrapped method, with the object it was called on (self) and
\* the object whose original method its wrapper invokes (target).
MethodCall(object, operation, cost) ==
    NewCall("wrapFunction", operation, cost)
        @@ [self |-> object, target |-> methods[object].target]

\* object[functionName](...) is called on an object whose method was
\* wrapped: up to the first await.
StartMethod ==
    /\ CanCall
    /\ \E object \in Objects :
         LET cost == getCost("translate")
             c == MethodCall(object, "translate", cost)
         IN  /\ methods[object].wrapped
             /\ IF ~GateOpen(currentBalance, cost)
                THEN /\ call' = [call EXCEPT ![next] = Finish(c, "insufficient")]
                     /\ UNCHANGED previewFor
                ELSE /\ call' = [call EXCEPT ![next] = [c EXCEPT !.pc = "preview"]]
                     /\ previewFor' = next
    /\ nCalls' = next
    /\ UNCHANGED <<currentBalance, isInitialized, store, notified>>
    /\ UNCHANGED aside

\* ------------------------------------- CreditStorage and CreditSecurity
\* The ledger store in detail.  Here the 'credits' store is kept as a
\* function from key to the record put under it, and every record as
\* saveCreditBalance builds it.
Fingerprints == {"fpA", "fpB"}
LedgerBalances == {0, 10}

\* JSON.stringify / JSON.parse of the credit data: the text is the list of
\* the members, in the order they were set.
Stringify(creditData) ==
    << <<"id", creditData.id>>,
       <<"balance", creditData.balance>>,
       <<"deviceFingerprint", creditData.deviceFingerprint>>,
       <<"timestamp", creditData.timestamp>>,
       <<"lastModified", creditData.lastModified>>,
       <<"integrityHash", creditData.integrityHash>> >>

Parse(text) ==
    [id |-> text[1][2], balance |-> text[2][2],
     deviceFingerprint |-> text[3][2], timestamp |-> text[4][2],
     lastModified |-> text[5][2], integrityHash |-> text[6][2]]

\* initializeCryptoKey: the AES-GCM key is derived from the fingerprint of
\* the device the code runs on.
CryptoKey(device) == <<"key", device>>

\* encryptData on that device (the random iv is left out): AES-GCM ciphertext
\* opens under the same key only, and only while no byte of it was changed.
encryptData(data, device) ==
    [key |-> CryptoKey(device), text |-> Stringify(data), intact |-> TRUE]

\* What decryptData returns for a ciphertext it cannot open.
Null == [null |-> TRUE]

decryptData(encryptedData, device) ==
    IF encryptedData.intact /\ encryptedData.key = CryptoKey(device)
    THEN Parse(encryptedData.text)
    ELSE Null

\* createIntegrityHash on that device: SHA-256 of the balance, the device's
\* own fingerprint and the timestamp (taken as collision free).
createIntegrityHash(creditData, device) ==
    <<"sha256", creditData.balance, device, creditData.timestamp>>

verifyIntegrity(creditData, expectedHash, device) ==
    createIntegrityHash(creditData, device) = expectedHash

\* The record saveCreditBalance(balance, deviceFingerprint) puts, built at
\* time timestamp on that device.
CreditData(balance, deviceFingerprint, timestamp) ==
    [id |-> "main", balance |-> balance,
     deviceFingerprint |-> deviceFingerprint,
     timestamp |-> timestamp, lastModified |-> timestamp]

EncryptedCreditRecord(balance, deviceFingerprint, timestamp, device) ==
    LET creditData == CreditData(balance, deviceFingerprint, timestamp)
        hashed == [id |-> creditData.id, balance |-> creditData.balance,
                   deviceFingerprint |-> creditData.deviceFingerprint,
                   timestamp |-> creditData.timestamp,
                   lastModified |-> creditData.lastModified,
                   integrityHash |-> createIntegrityHash(creditData, device)]
    IN  [id |-> "main", data |-> encryptData(hashed, device),
         deviceFingerprint |-> deviceFingerprint, timestamp |-> timestamp]

\* What getCreditBalance settles with, on that device.
ResolvedNull == [settled |-> "resolved", value |-> Null]
Resolved(creditData) == [settled |-> "resolved", value |-> creditData]
Rejected(message) == [settled |-> "rejected", error |-> message]

\* Mutant: the integrity hash is not looked at.
getCreditBalance_Unverified(objectStore, device) ==
    IF "main" \notin DOMAIN objectStore THEN ResolvedNull
    ELSE LET decryptedData == decryptData(objectStore["main"].data, device) IN
         IF decryptedData = Null
         THEN Rejected("Failed to decrypt credit data")
         ELSE Resolved(decryptedData)

getCreditBalance(objectStore, device) ==
    IF "main" \notin DOMAIN objectStore THEN ResolvedNull
    ELSE LET decryptedData == decryptData(objectStore["main"].data, device) IN
         IF decryptedData = Null
         THEN Rejected("Failed to decrypt credit data")
         ELSE IF ~verifyIntegrity(decryptedData, decryptedData.integrityHash, device)
         THEN Rejected("Credit data integrity check failed")
         ELSE Resolved(decryptedData)

\* A call of the ledger store with its arguments; result is what its
\* promise settled with.
Pending == [settled |-> "pending", value |-> Null]
LedgerCall(kind, pc, device, balance, deviceFingerprint, timestamp) ==
    [kind |-> kind, pc |-> pc, device |-> device, balance |-> balance,
     deviceFingerprint |-> deviceFingerprint, timestamp |-> timestamp,
     result |-> Pending]


\* saveCreditBalance(balance, deviceFingerprint) up to its put request: the
\* timestamp is taken, the record hashed and encrypted.
StartSave ==
    /\ CanCall
    /\ \E balance \in LedgerBalances, deviceFingerprint \in Fingerprints,
          device \in Fingerprints :
         call' = [call EXCEPT ![next] =
             LedgerCall("saveCreditBalance", "put", device, balance,
                        deviceFingerprint, Now)]
    /\ nCalls' = next
    /\ UNCHANGED <<currentBalance, isInitialized, store, notified, previewFor>>
    /\ UNCHANGED aside

\* Mutant: the store is keyed by the fingerprint.
Put_ByFingerprint(objectStore, record) ==
    [k \in DOMAIN objectStore \cup {record.deviceFingerprint} |->
        IF k = record.deviceFingerprint THEN record ELSE objectStore[k]]

\* store.put(record): the store is keyed by the member 'id'.
Put(objectStore, record) ==
    [k \in DOMAIN objectStore \cup {record.id} |->
        IF k = record.id THEN record ELSE objectStore[k]]

\* The put request of saveCreditBalance settles.
PutSettles(i) ==
    /\ call[i].pc = "put"
    /\ \/ /\ dbOpen
          /\ credits' = Put(credits,
                 EncryptedCreditRecord(call[i].balance, call[i].deviceFingerprint,
                                       call[i].timestamp, call[i].device))
          /\ call' = [call EXCEPT ![i] =
                 [@ EXCEPT !.pc = "done", !.result = ResolvedNull]]
       \/ /\ UNCHANGED credits
          /\ call' = [call EXCEPT ![i] =
                 [@ EXCEPT !.pc = "done",
                           !.result = Rejected("Failed to save credit balance")]]
    /\ UNCHANGED <<currentBalance, isInitialized, dbOpen, transactions, txKey,
                   notified, previewFor, nCalls>>
    /\ UNCHANGED aside

\* getCreditBalance up to its get request.  With the database not opened
\* getStore throws inside the async executor, and the promise never settles.
StartGet ==
    /\ CanCall
    /\ \E device \in Fingerprints :
         call' = [call EXCEPT ![next] =
             LedgerCall("getCreditBalance", IF dbOpen THEN "get" ELSE "hung",
                        device, 0, "none", 0)]
    /\ nCalls' = next
    /\ UNCHANGED <<currentBalance, isInitialized, store, notified, previewFor>>
    /\ UNCHANGED aside

\* The get request settles; the record is decrypted and verified.
GetSettles(i) ==
    /\ call[i].pc = "get"
    /\ \E result \in {getCreditBalance(credits, call[i].device),
                      Rejected("Failed to fetch credit balance")} :
         call' = [call EXCEPT ![i] = [@ EXCEPT !.pc = "done", !.result = result]]
    /\ UNCHANGED <<currentBalance, isInitialized, store, notified, previewFor,
                   nCalls>>
    /\ UNCHANGED aside

\* Somebody changes bytes of the stored ciphertext.
CorruptCiphertext ==
    /\ "main" \in DOMAIN credits
    /\ credits["main"].data.intact
    /\ credits' = [credits EXCEPT !["main"].data.intact = FALSE]
    /\ UNCHANGED <<currentBalance, isInitialized, dbOpen, transactions, txKey,
                   notified, previewFor, call, nCalls>>
    /\ UNCHANGED aside

\* Somebody holding the device's key stores another balance in the record
\* and leaves the integrity hash as it was.
ForgeBalance ==
    /\ "main" \in DOMAIN credits
    /\ \E balance \in LedgerBalances :
         LET creditData == Parse(credits["main"].data.text) IN
           /\ balance # creditData.balance
           /\ credits' = [credits EXCEPT !["main"].data.text =
                  Stringify([creditData EXCEPT !.balance = balance])]
    /\ UNCHANGED <<currentBalance, isInitialized, dbOpen, transactions, txKey,
                   notified, previewFor, call, nCalls>>
    /\ UNCHANGED aside

\* ------------------------------------------ transaction log and history
\* A call of logTransaction or getTransactionHistory on the storage.
HistoryCall(kind, pc, entry, timestamp, limit, outcome) ==
    [kind |-> kind, pc |-> pc, entry |-> entry, timestamp |-> timestamp,
     limit |-> limit, result |-> <<>>, outcome |-> outcome]

\* <<type, amount, operation>> of the transactions logged in the model, and
\* the limits asked of getTransactionHistory.
LogEntries == {<<"purchase", 10, "purchase">>, <<"deduction", 7, "translate">>}
Limits == {0, 1, 2}

\* The record store.add stores: the key generator fills in 'id'.
LoggedTransaction(key, entry, timestamp) ==
    [id |-> key, type |-> entry[1], amount |-> entry[2],
     operation |-> entry[3], timestamp |-> timestamp]

\* logTransaction up to its store.add: the timestamp is read first; with no
\* database getStore throws in the promise executor and the promise rejects.
StartLogTransaction ==
    /\ CanCall
    /\ \E entry \in LogEntries :
         call' = [call EXCEPT ![next] =
             IF dbOpen
             THEN HistoryCall("logTransaction", "add", entry, Now, 0, "none")
             ELSE HistoryCall("logTransaction", "done", entry, Now, 0,
                              "rejected")]
    /\ nCalls' = next
    /\ UNCHANGED <<currentBalance, isInitialized, store, notified, previewFor>>
    /\ UNCHANGED aside

\* The add request settles.
AddSettles(i) ==
    /\ call[i].pc = "add"
    /\ \/ /\ transactions' = Append(transactions,
                 LoggedTransaction(txKey, call[i].entry, call[i].timestamp))
          /\ txKey' = NextKey(txKey)
          /\ call' = [call EXCEPT ![i] =
                 [@ EXCEPT !.pc = "done", !.outcome = "resolved"]]
       \/ /\ UNCHANGED <<transactions, txKey>>
          /\ call' = [call EXCEPT ![i] =
                 [@ EXCEPT !.pc = "done", !.outcome = "rejected"]]
    /\ UNCHANGED <<currentBalance, isInitialized, dbOpen, credits, notified,
                   previewFor, nCalls>>
    /\ UNCHANGED aside

\* Mutant: the index is walked from its low end.
Precedes_Reversed(q, r) ==
    \/ q.timestamp > r.timestamp
    \/ q.timestamp = r.timestamp /\ q.id > r.id

\* Order of the 'timestamp' index: by timestamp, then by primary key.
Precedes(q, r) ==
    \/ q.timestamp < r.timestamp
    \/ q.timestamp = r.timestamp /\ q.id < r.id

\* openCursor(null, 'prev') over the records: the last of the index first,
\* pushed while count < limit.
RECURSIVE CursorPrev(_, _)
CursorPrev(records, limit) ==
    IF records = {} \/ ~(0 < limit) THEN <<>>
    ELSE LET last == CHOOSE r \in records :
                         \A q \in records \ {r} : Precedes(q, r)
         IN <<last>> \o CursorPrev(records \ {last}, limit - 1)

getTransactionHistory(log, limit) ==
    CursorPrev({log[n] : n \in 1..Len(log)}, limit)

\* getTransactionHistory up to its cursor request.
StartHistory ==
    /\ CanCall
    /\ \E limit \in Limits :
         call' = [call EXCEPT ![next] =
             IF dbOpen
             THEN HistoryCall("getTransactionHistory", "cursor", <<>>, 0,
                              limit, "none")
             ELSE HistoryCall("getTransactionHistory", "done", <<>>, 0,
                              limit, "rejected")]
    /\ nCalls' = next
    /\ UNCHANGED <<currentBalance, isInitialized, store, notified, previewFor>>
    /\ UNCHANGED aside

\* The cursor has been walked (one read-only transaction), or failed.
HistorySettles(i) ==
    /\ call[i].pc = "cursor"
    /\ \/ call' = [call EXCEPT ![i] =
              [@ EXCEPT !.pc = "done", !.outcome = "resolved",
                        !.result = getTransactionHistory(transactions,
                                                         call[i].limit)]]
       \/ call' = [call EXCEPT ![i] =
              [@ EXCEPT !.pc = "done", !.outcome = "rejected"]]
    /\ UNCHANGED <<currentBalance, isInitialized, store, notified, previewFor,
                   nCalls>>
    /\ UNCHANGED aside

\* --------------------------------------------------------------- export
\* What a .catch(() => {}) hands on: undefined.
UndefinedValue == [undefined |-> TRUE]

\* getTransactionHistory(1000) in exportCreditData.
ExportLimit == 1000

\* A call of exportCreditData: the fetches of its Promise.all that have
\* settled (a rejected one through its catch), the one that never will, and
\* the snapshot being put together.
ExportCall(device, settled, hung) ==
    [kind |-> "exportCreditData", pc |-> "fetch", device |-> device,
     settled |-> settled, hung |-> hung, balance |-> Null,
     transactions |-> <<>>, settings |-> UndefinedValue, version |-> "none"]

\* exportCreditData up to its await: the three fetches are started.  With
\* no database, getStore throws in all three: getTransactionHistory and
\* getAllSettings reject and their catch gives [] and undefined;
\* getCreditBalance has an async promise executor, whose throw settles
\* nothing: that promise stays pending.
StartExport ==
    /\ CanCall
    /\ \E device \in Fingerprints :
         call' = [call EXCEPT ![next] =
             IF dbOpen
             THEN ExportCall(device, {}, {})
             ELSE ExportCall(device, {"transactions", "settings"}, {"balance"})]
    /\ nCalls' = next
    /\ UNCHANGED <<currentBalance, isInitialized, store, notified, previewFor>>
    /\ UNCHANGED aside

Fetching(i, fetch) ==
    /\ call[i].pc = "fetch"
    /\ fetch \notin call[i].settled \cup call[i].hung

\* getCreditBalance().catch(() => null) settles.
BalanceFetched(i) ==
    /\ Fetching(i, "balance")
    /\ LET result == getCreditBalance(credits, call[i].device) IN
         \/ \* the record was read; a record that is refused gives null
            call' = [call EXCEPT ![i] =
                [@ EXCEPT !.settled = @ \cup {"balance"},
                          !.balance = IF result.settled = "resolved"
                                      THEN result.value ELSE Null]]
         \/ \* the get request fails
            call' = [call EXCEPT ![i] =
                [@ EXCEPT !.settled = @ \cup {"balance"}, !.balance = Null]]
    /\ UNCHANGED <<currentBalance, isInitialized, store, notified, previewFor,
                   nCalls>>
    /\ UNCHANGED aside

\* getTransactionHistory(1000).catch(() => []) settles.
HistoryFetched(i) ==
    /\ Fetching(i, "transactions")
    /\ \E result \in {getTransactionHistory(transactions, ExportLimit), <<>>} :
         call' = [call EXCEPT ![i] =
             [@ EXCEPT !.settled = @ \cup {"transactions"},
                       !.transactions = result]]
    /\ UNCHANGED <<currentBalance, isInitialized, store, notified, previewFor,
                   nCalls>>
    /\ UNCHANGED aside

\* getAllSettings: the stored items as one object.
getAllSettings(objectStore) ==
    [key \in DOMAIN objectStore |-> objectStore[key].value]

\* getAllSettings().catch(() => {}) settles.
SettingsFetched(i) ==
    /\ Fetching(i, "settings")
    /\ \/ call' = [call EXCEPT ![i] =
              [@ EXCEPT !.settled = @ \cup {"settings"},
                        !.settings = getAllSettings(creditSettings)]]
       \/ \* the getAll request fails
          call' = [call EXCEPT ![i] =
              [@ EXCEPT !.settled = @ \cup {"settings"},
                        !.settings = UndefinedValue]]
    /\ UNCHANGED <<currentBalance, isInitialized, store, notified, previewFor,
                   nCalls>>
    /\ UNCHANGED aside

\* Promise.all resolves; the snapshot is returned.
ExportSettles(i) ==
    /\ call[i].pc = "fetch"
    /\ call[i].settled = {"balance", "transactions", "settings"}
    /\ call' = [call EXCEPT ![i] = [@ EXCEPT !.pc = "done", !.version = "1.0"]]
    /\ UNCHANGED <<currentBalance, isInitialized, store, notified, previewFor,
                   nCalls>>
    /\ UNCHANGED aside

\* ----------------------------------------------------------------- spec
Init ==
    /\ currentBalance = 0
    /\ isInitialized = FALSE
    /\ dbOpen = FALSE
    /\ credits \in {NoRecord} \cup {BalanceRecord(b) : b \in StoredBalances}
    /\ transactions = <<>>
    /\ txKey = 1
    /\ notified = <<>>
    /\ previewFor = 0
    /\ call = [i \in CallIds |-> Blank]
    /\ nCalls = 0
    /\ creditSettings = <<>>
    /\ backupCodes = <<>>
    /\ balanceChangeListeners = <<>>
    /\ calledBack = <<>>
    /\ originalFunctions = [key \in WrapKeys |-> "none"]
    /\ methods = [object \in Objects |-> Original(object)]
    /\ lowBalanceWarning = "hidden"

Next ==
    \/ StartInitialize
    \/ \E i \in CallIds : OpenDb(i)
    \/ \E i \in CallIds : ReadBalance(i)
    \/ \E i \in CallIds : LoadBalance(i)
    \/ \E i \in CallIds : SaveDefault(i)
    \/ \E i \in CallIds : RequestPersistent(i)
    \/ StartDeduct
    \/ StartAdd
    \/ StartReset
    \/ \E i \in CallIds : SaveBalance(i)
    \/ \E i \in CallIds : LogTransaction(i)

Spec == Init /\ [][Next]_vars

\* The integration layer over the manager: the application initializes the
\* credit system and calls wrapped functions.
NextWrapped ==
    \/ StartInitialize
    \/ \E i \in CallIds : OpenDb(i)
    \/ \E i \in CallIds : ReadBalance(i)
    \/ \E i \in CallIds : LoadBalance(i)
    \/ \E i \in CallIds : SaveDefault(i)
    \/ \E i \in CallIds : RequestPersistent(i)
    \/ StartWrapped
    \/ \E i \in CallIds : AnswerPreview(i)
    \/ \E i \in CallIds : FirstSettles(i)
    \/ \E i \in CallIds : RetrySettles(i)
    \/ \E i \in CallIds : SaveBalance(i)
    \/ \E i \in CallIds : LogTransaction(i)

SpecWrapped == Init /\ [][NextWrapped]_vars

\* initialize alone, over every kind of record an earlier session (or a
\* change of the device fingerprint, or tampering) may have left.
InitLoad ==
    /\ currentBalance = 0
    /\ isInitialized = FALSE
    /\ dbOpen = FALSE
    /\ credits \in {NoRecord, CorruptRecord}
                     \cup {BalanceRecord(b) : b \in StoredBalances}
    /\ transactions = <<>>
    /\ txKey = 1
    /\ notified = <<>>
    /\ previewFor = 0
    /\ call = [i \in CallIds |-> Blank]
    /\ nCalls = 0
    /\ creditSettings = <<>>
    /\ backupCodes = <<>>
    /\ balanceChangeListeners = <<>>
    /\ calledBack = <<>>
    /\ originalFunctions = [key \in WrapKeys |-> "none"]
    /\ methods = [object \in Objects |-> Original(object)]
    /\ lowBalanceWarning = "hidden"

NextLoad ==
    \/ StartInitialize
    \/ \E i \in CallIds : OpenDb(i)
    \/ \E i \in CallIds : ReadBalance(i)
    \/ \E i \in CallIds : LoadBalance(i)
    \/ \E i \in CallIds : SaveDefault(i)
    \/ \E i \in CallIds : RequestPersistent(i)

SpecLoad == InitLoad /\ [][NextLoad]_vars

\* The ledger store alone: saves and reads of the balance record, possibly
\* by sessions on different devices, and tampering with the stored record.
InitLedger ==
    /\ currentBalance = 0
    /\ isInitialized = FALSE
    /\ dbOpen \in BOOLEAN
    /\ credits = [k \in {} |-> Null]
    /\ transactions = <<>>
    /\ txKey = 1
    /\ notified = <<>>
    /\ previewFor = 0
    /\ call = [i \in CallIds |-> Blank]
    /\ nCalls = 0
    /\ creditSettings = <<>>
    /\ backupCodes = <<>>
    /\ balanceChangeListeners = <<>>
    /\ calledBack = <<>>
    /\ originalFunctions = [key \in WrapKeys |-> "none"]
    /\ methods = [object \in Objects |-> Original(object)]
    /\ lowBalanceWarning = "hidden"

NextLedger ==
    \/ StartSave
    \/ \E i \in CallIds : PutSettles(i)
    \/ StartGet
    \/ \E i \in CallIds : GetSettles(i)
    \/ CorruptCiphertext
    \/ ForgeBalance

SpecLedger == InitLedger /\ [][NextLedger]_vars

\* The transaction log and its readers, on the storage.
NextHistory ==
    \/ StartLogTransaction
    \/ \E i \in CallIds : AddSettles(i)
    \/ StartHistory
    \/ \E i \in CallIds : HistorySettles(i)

SpecHistory == InitLedger /\ [][NextHistory]_vars

\* exportCreditData over a storage that was opened or not, with a balance
\* record, transactions and a setting written by other calls.
NextExport ==
    \/ StartSave
    \/ \E i \in CallIds : PutSettles(i)
    \/ StartLogTransaction
    \/ \E i \in CallIds : AddSettles(i)
    \/ SaveSetting
    \/ StartExport
    \/ \E i \in CallIds : BalanceFetched(i)
    \/ \E i \in CallIds : HistoryFetched(i)
    \/ \E i \in CallIds : SettingsFetched(i)
    \/ \E i \in CallIds : ExportSettles(i)

\* Every request of IndexedDB that was issued fires success or error, and a
\* settled promise runs its reactions.
SpecExport ==
    /\ InitLedger
    /\ [][NextExport]_vars
    /\ \A i \in CallIds :
          /\ WF_vars(PutSettles(i))
          /\ WF_vars(AddSettles(i))
          /\ WF_vars(BalanceFetched(i))
          /\ WF_vars(HistoryFetched(i))
          /\ WF_vars(SettingsFetched(i))
          /\ WF_vars(ExportSettles(i))

\* Purchases on an initialized manager: the Ready
\* state of a fresh install (balance 0) or of a returning user.
ReadyBalances == {0} \cup StoredBalances

InitReady ==
    /\ currentBalance \in ReadyBalances
    /\ isInitialized = TRUE
    /\ dbOpen = TRUE
    /\ credits = BalanceRecord(currentBalance)
    /\ transactions = <<>>
    /\ txKey = 1
    /\ notified = <<>>
    /\ previewFor = 0
    /\ call = [i \in CallIds |-> Blank]
    /\ nCalls = 0
    /\ creditSettings = <<>>
    /\ backupCodes = <<>>
    /\ balanceChangeListeners = <<>>
    /\ calledBack = <<>>
    /\ originalFunctions = [key \in WrapKeys |-> "none"]
    /\ methods = [object \in Objects |-> Original(object)]
    /\ lowBalanceWarning = "hidden"

NextPurchase ==
    \/ StartPurchase
    \/ \E i \in CallIds : PaymentDone(i)
    \/ \E i \in CallIds : SaveBalance(i)
    \/ \E i \in CallIds : LogTransaction(i)

SpecPurchase == InitReady /\ [][NextPurchase]_vars

\* Recovery and wiping on an initialized manager: backup codes, settings,
\* clearAllData, and resetCredits as the mutation that fills the log.
NextRecovery ==
    \/ StartGenerate
    \/ \E i \in CallIds : SaveCodes(i)
    \/ StartUse
    \/ \E i \in CallIds : UseSettles(i)
    \/ SaveSetting
    \/ StartReset
    \/ \E i \in CallIds : SaveBalance(i)
    \/ \E i \in CallIds : LogTransaction(i)
    \/ StartClear
    \/ \E i \in CallIds : ClearStores(i)

SpecRecovery == InitReady /\ [][NextRecovery]_vars

\* The balance mutations on an initialized manager whose listeners are
\* registered at any time: a top-up first (or none), then deductions and
\* resets.
NextListeners ==
    \/ OnBalanceChange
    \/ StartDeduct
    \/ nCalls = 0 /\ StartAdd
    \/ StartReset
    \/ \E i \in CallIds : SaveBalance(i)
    \/ \E i \in CallIds : LogTransaction(i)

SpecListeners == InitReady /\ [][NextListeners]_vars

\* Wrapped calls with their arguments, up to the record each appends.
NextMetered ==
    \/ StartMetered
    \/ \E i \in CallIds : AnswerPreview(i)
    \/ \E i \in CallIds : MeteredSettles(i)
    \/ \E i \in CallIds : RetrySettles(i)
    \/ \E i \in CallIds : SaveBalance(i)
    \/ \E i \in CallIds : LogMetered(i)

SpecMetered == InitReady /\ [][NextMetered]_vars

\* A fresh install after initialize: balance 0, a record of 0, an empty log.
InitFresh == InitReady /\ currentBalance = 0

\* The mutations of the manager called one after the other, each when the
\* one before has settled.
NextSequential ==
    \/ Quiescent /\ StartAdd
    \/ Quiescent /\ StartDeduct
    \/ Quiescent /\ StartPurchase
    \/ Quiescent /\ StartReset
    \/ Quiescent /\ StartClear
    \/ \E i \in CallIds : PaymentDone(i)
    \/ \E i \in CallIds : SaveBalance(i)
    \/ \E i \in CallIds : LogTransaction(i)
    \/ \E i \in CallIds : ClearStores(i)

SpecSequential == InitFresh /\ [][NextSequential]_vars

\* Wrapped functions called on an initialized manager, with a user who
\* answers the preview that is on screen: a click on Proceed or Cancel
\* comes for as long as a preview waits for it.
NextConfirm ==
    \/ StartWrapped
    \/ \E i \in CallIds : AnswerPreview(i)
    \/ \E i \in CallIds : FirstSettles(i)
    \/ \E i \in CallIds : RetrySettles(i)
    \/ \E i \in CallIds : SaveBalance(i)
    \/ \E i \in CallIds : LogTransaction(i)

SpecConfirm ==
    /\ InitReady
    /\ [][NextConfirm]_vars
    /\ \A i \in CallIds : WF_vars(AnswerPreview(i))

\* Methods of two objects are wrapped, in any order and any number of
\* times, and called.
NextWrapping ==
    \/ \E object \in Objects : WrapFunction(object)
    \/ StartMethod
    \/ \E i \in CallIds : AnswerPreview(i)
    \/ \E i \in CallIds : FirstSettles(i)
    \/ \E i \in CallIds : RetrySettles(i)
    \/ \E i \in CallIds : SaveBalance(i)
    \/ \E i \in CallIds : LogTransaction(i)

SpecWrapping == InitReady /\ [][NextWrapping]_vars

\* Cost previews asked while deductions and resets move the balance.
NextPreview ==
    \/ GetCostPreview
    \/ StartDeduct
    \/ StartReset
    \/ \E i \in CallIds : SaveBalance(i)
    \/ \E i \in CallIds : LogTransaction(i)

SpecPreview == InitReady /\ [][NextPreview]_vars

\* ======================================================== properties
\* Call i takes a step.
Steps(i) == call'[i] # call[i]
\* Call i is issued in this step.
Issued(i) == call[i].pc = "idle" /\ call'[i].pc # "idle"
\* Call i runs deductCredits / addCredits.
Mutating(i) == call[i].mut \in {"deduct", "add"}

\* Signed sum of the log: what the logged mutations did to the balance.
RECURSIVE LogSum(_)
LogSum(log) ==
    IF log = <<>> THEN 0
    ELSE LET t == log[Len(log)] IN
         LogSum(SubSeq(log, 1, Len(log) - 1))
           + (IF t.type = "deduction" THEN -t.amount ELSE t.amount)

\* C1: after every completed mutation the balance is >= 0, in memory and in
\* the persisted record: stated for the states in which no call is in flight,
\* every mutation was issued in the Ready state and no call has failed for a
\* storage error.
C1_BalanceNonNegative ==
    (/\ Quiescent
     /\ \A i \in CallIds :
            /\ call[i].outcome \in {"none", "ok", "noop", "insufficient"}
            /\ call[i].kind \notin {"none", "init"} => call[i].ready)
    => /\ currentBalance >= 0
       /\ credits.kind = "valid" => credits.balance >= 0

\* C2: with the manager initialized and no call in flight, the in-memory
\* balance equals the balance of the persisted record.
C2_MemoryEqualsPersisted ==
    (Quiescent /\ isInitialized) =>
        /\ credits.kind = "valid"
        /\ currentBalance = credits.balance

\* C3: deductCredits(cost) issued with currentBalance < cost fails with the
\* insufficiency error and changes neither the balance, the store, the log
\* nor notifies a listener.
C3_InsufficientDeductNoChange ==
    [][\A i \in CallIds :
          (Issued(i) /\ call'[i].kind = "deduct" /\ currentBalance < call'[i].amt)
          => /\ call'[i].pc = "done"
             /\ call'[i].outcome = "insufficient"
             /\ UNCHANGED <<currentBalance, credits, transactions, notified>>]_vars

C3_Witness ==
    \E i \in CallIds :
        /\ call[i].kind = "deduct"
        /\ call[i].outcome = "insufficient"
        /\ call[i].ready
        /\ call[i].amt = TRANSLATE
        /\ Quiescent
        /\ Len(transactions) = 1
        /\ currentBalance = 3
        /\ credits = BalanceRecord(3)

\* C4: a deductCredits(cost, op) issued with currentBalance >= cost lowers the
\* in-memory balance by exactly cost; its save writes a record holding that
\* new balance; its log step appends exactly one 'deduction' transaction of
\* amount cost and operation op and, in that same step and not before,
\* notifies the listeners; it succeeds only through that step.
C4_SuccessfulDeduct ==
    [][\A i \in CallIds :
          /\ (Issued(i) /\ call'[i].kind = "deduct" /\ currentBalance >= call'[i].amt)
             => /\ call'[i].pc = "save"
                /\ currentBalance' = currentBalance - call'[i].amt
                /\ UNCHANGED <<credits, transactions, notified>>
          /\ (Steps(i) /\ call[i].mut = "deduct" /\ call[i].pc = "save"
                /\ call'[i].pc = "log")
             => /\ credits' = BalanceRecord(call[i].prev - call[i].amt)
                /\ UNCHANGED <<transactions, notified>>
          /\ (Steps(i) /\ call[i].mut = "deduct" /\ call'[i].outcome = "ok")
             => /\ call[i].pc = "log"
                /\ credits.kind = "valid"
                /\ Len(transactions') = Len(transactions) + 1
                /\ SubSeq(transactions', 1, Len(transactions)) = transactions
                /\ transactions'[Len(transactions')].type = "deduction"
                /\ transactions'[Len(transactions')].amount = call[i].amt
                /\ transactions'[Len(transactions')].operation = call[i].op
                /\ notified' = Append(notified, currentBalance)
                /\ UNCHANGED <<currentBalance, credits>>]_vars

C4_Witness ==
    \E i \in CallIds :
        /\ call[i].kind = "deduct"
        /\ call[i].outcome = "ok"
        /\ call[i].ready
        /\ call[i].amt = TRANSLATE
        /\ currentBalance = 3
        /\ credits = BalanceRecord(3)
        /\ Len(transactions) = 1
        /\ notified = <<3>>

\* C5: when the save of deductCredits / addCredits fails, the in-memory
\* balance is restored to its value before the call, the call ends with the
\* error, and nothing is logged, stored or notified.
C5_SaveFailureRollsBack ==
    [][\A i \in CallIds :
          (Steps(i) /\ Mutating(i) /\ call[i].pc = "save" /\ call'[i].pc # "log")
          => /\ call'[i].pc = "done"
             /\ call'[i].outcome = "saveFailed"
             /\ currentBalance' = call[i].prev
             /\ UNCHANGED <<credits, transactions, notified>>]_vars

C5_Witness ==
    \E i \in CallIds :
        /\ call[i].kind \in {"deduct", "add"}
        /\ call[i].outcome = "saveFailed"
        /\ call[i].ready
        /\ currentBalance = credits.balance

\* C6: overlapping mutations lose no update.  With every mutation issued
\* in the Ready state with a positive amount and every failure a failed
\* save, once all calls have settled the in-memory and the persisted balance
\* both equal the balance initialize loaded plus the net effect of the
\* mutations that succeeded (each of them logged its amount).
C6_NoLostUpdate ==
    (/\ Quiescent
     /\ call[1].kind = "init" /\ call[1].outcome = "ok"
     /\ \A i \in CallIds \ {1} :
            /\ call[i].kind \in {"deduct", "add", "none"}
            /\ call[i].kind # "none" =>
                   (call[i].ready /\ call[i].amt > 0
                      /\ call[i].outcome # "logFailed"))
    => /\ currentBalance = call[1].amt + LogSum(transactions)
       /\ credits.balance = call[1].amt + LogSum(transactions)

\* C7: when the save of deductCredits / addCredits (issued in the Ready
\* state with a positive amount) succeeded and the log append fails, the
\* balance change stands: the failing step leaves the new in-memory balance
\* and the new persisted record as they are.
C7_LogFailureKeepsBalance ==
    [][\A i \in CallIds :
          (Steps(i) /\ Mutating(i) /\ call[i].ready /\ call[i].amt > 0
             /\ call[i].pc = "log" /\ call'[i].outcome = "logFailed")
          => UNCHANGED <<currentBalance, credits>>]_vars

\* Call i is a call of a wrapped function.
Wrapped(i) == call[i].kind \in WrapperKinds

\* C8: a wrapped function called with the balance below the cost of its
\* operation settles at once with the insufficiency signal (an error from
\* wrapFunction / wrapCompleteWorkflowFunction, nothing from the button and
\* voice wrappers): f has not been invoked, and balance, persisted record,
\* log and listeners are untouched.
C8_InsufficientNeverInvokes ==
    [][\A i \in CallIds :
          (Issued(i) /\ call'[i].kind \in WrapperKinds /\ call'[i].amt > 0
             /\ currentBalance < call'[i].amt)
          => /\ call'[i].pc = "done"
             /\ call'[i].outcome \in {"insufficient", "absent"}
             /\ call'[i].fCalls = 0
             /\ UNCHANGED <<currentBalance, credits, transactions, notified>>]_vars

C8_Witness ==
    \E i \in CallIds :
        /\ Wrapped(i)
        /\ call[i].outcome \in {"insufficient", "absent"}
        /\ call[i].fCalls = 0
        /\ call[i].ready
        /\ currentBalance = 3
        /\ Len(transactions) = 1

\* C9: when the user declines the cost preview the wrapped function settles
\* in that step with the abort sentinel: f has not been invoked, and balance,
\* persisted record, log and listeners are untouched.
C9_DeclineNeverInvokes ==
    [][\A i \in CallIds :
          (Steps(i) /\ call[i].pc = "preview" /\ call'[i].confirmed = "no")
          => /\ call'[i].pc = "done"
             /\ call'[i].outcome = "declined"
             /\ call'[i].fCalls = 0
             /\ UNCHANGED <<currentBalance, credits, transactions, notified>>]_vars

C9_Witness ==
    \E i \in CallIds :
        /\ Wrapped(i)
        /\ call[i].ready
        /\ call[i].confirmed = "no"
        /\ call[i].outcome = "declined"
        /\ currentBalance = 10
        /\ transactions = <<>>

\* C10: a wrapped function whose f threw has settled with a thrown error.
C10_FailurePropagates ==
    \A i \in CallIds :
        (Wrapped(i) /\ call[i].pc = "done" /\ call[i].ready
           /\ call[i].f1 \in FThrows)
        => call[i].outcome = "threw"

\* C11: a wrapped function whose f returned a non-absent result has settled
\* by returning that result after its one deductCredits went through: stated
\* for one initialize followed by wrapped calls, none failed by the storage.
C11_ResultChargedAndReturned ==
    (/\ call[1].kind = "init" /\ call[1].outcome = "ok"
     /\ \A j \in CallIds \ {1} :
            /\ call[j].kind \in WrapperKinds \cup {"none"}
            /\ call[j].outcome \notin {"saveFailed", "logFailed"})
    => \A i \in CallIds :
           (Wrapped(i) /\ call[i].kind \in Retrying /\ call[i].pc = "done"
              /\ call[i].ready /\ call[i].f1 = "value")
           => call[i].outcome = "ok"

\* C12: a call that met an insufficient balance (a deductCredits rejected by
\* its check, a wrapper stopped at its gate or at its deduction) has not
\* settled with a thrown error.
C12_InsufficientNotThrown ==
    \A i \in CallIds :
        (call[i].pc = "done" /\ call[i].ready
           /\ call[i].outcome \in {"insufficient", "absent"})
        => call[i].outcome \notin Thrown

\* C13: a deductCredits, addCredits or resetCredits issued before initialize
\* has completed does not go through: it never settles successfully (having
\* changed the balance in memory and in the store).
C13_OnlyReadyMutates ==
    \A i \in CallIds :
        (call[i].kind \in {"deduct", "add", "reset"} /\ call[i].pc = "done"
           /\ call[i].amt > 0 /\ ~call[i].ready)
        => call[i].outcome # "ok"

\* C14: initialize called in the Ready state settles at once as a no-op
\* (nothing read, nothing written, balance unchanged); and when two or more
\* calls of initialize, overlapping or not, have all completed having loaded
\* the same balance, the state is the one a single call leaves: that balance
\* in memory and in the one persisted record, and an empty log.
C14_InitializeIdempotent ==
    /\ [][\A i \in CallIds :
             (Issued(i) /\ call'[i].kind = "init" /\ isInitialized)
             => /\ call'[i].pc = "done"
                /\ call'[i].outcome = "noop"
                /\ UNCHANGED <<currentBalance, isInitialized, store, notified>>]_vars
    /\ []((/\ Quiescent
           /\ nCalls >= 2
           /\ \A i \in 1..nCalls :
                  /\ call[i].kind = "init"
                  /\ call[i].outcome \in {"ok", "noop"}
                  /\ call[i].outcome = "ok" => call[i].amt = call[1].amt)
          => /\ isInitialized
             /\ currentBalance = call[1].amt
             /\ credits = BalanceRecord(call[1].amt)
             /\ transactions = <<>>)

C14_Witness ==
    /\ Quiescent
    /\ \A i \in {1, 2} : call[i].kind = "init" /\ call[i].outcome = "ok"
    /\ call[3].kind = "init" /\ call[3].outcome = "noop"
    /\ currentBalance = 10
    /\ credits = BalanceRecord(10)

C16_OpenFailureIsFatal ==
    [][\A i \in CallIds :
          /\ (Steps(i) /\ call[i].pc = "open" /\ call'[i].pc # "read")
             => /\ call'[i].pc = "done"
                /\ call'[i].outcome = "openFailed"
                /\ UNCHANGED <<currentBalance, isInitialized, store, notified>>
          /\ (Issued(i) /\ call'[i].kind = "init" /\ ~isInitialized)
             => call'[i].pc = "open"]_vars

C16_Witness ==
    /\ call[1].kind = "init" /\ call[1].outcome = "openFailed"
    /\ call[2].kind = "init" /\ call[2].outcome = "ok"
    /\ ~call[2].ready
    /\ isInitialized

\* Call i is a getCreditBalance whose request settles in this step without
\* the request itself failing.
Reads(i) ==
    /\ call[i].pc = "get"
    /\ call'[i].pc = "done"
    /\ call'[i].result # Rejected("Failed to fetch credit balance")

\* The stored record opens on that device / carries the hash of its content.
Opens(record, device) ==
    record.data.intact /\ record.data.key = CryptoKey(device)
HashMatches(record, device) ==
    LET creditData == Parse(record.data.text) IN
      creditData.integrityHash = createIntegrityHash(creditData, device)

\* C17: getCreditBalance resolves with a record only if the stored ciphertext
\* is untouched, opens with the device's key and carries the hash of its
\* content; and it tells the three conditions apart: no record resolves
\* null, a ciphertext that does not open rejects with the decryption error,
\* one that opens with a wrong hash rejects with the integrity error.
C17_TamperedNeverUsable ==
    [][\A i \in CallIds : Reads(i) =>
          LET result == call'[i].result
              device == call[i].device
          IN  /\ "main" \notin DOMAIN credits => result = ResolvedNull
              /\ "main" \in DOMAIN credits =>
                   LET record == credits["main"] IN
                     /\ ~Opens(record, device)
                          => result = Rejected("Failed to decrypt credit data")
                     /\ (Opens(record, device) /\ ~HashMatches(record, device))
                          => result = Rejected("Credit data integrity check failed")
                     /\ (Opens(record, device) /\ HashMatches(record, device))
                          => /\ result.settled = "resolved"
                             /\ result.value = Parse(record.data.text)]_vars

C17_Witness ==
    \E i, j \in CallIds :
        /\ call[i].kind = "getCreditBalance" /\ call[i].pc = "done"
        /\ call[i].result = Rejected("Credit data integrity check failed")
        /\ call[j].kind = "getCreditBalance" /\ call[j].pc = "done"
        /\ call[j].result = Rejected("Failed to decrypt credit data")
        /\ call[i].device = call[j].device

\* Call j is a saveCreditBalance whose record is the one in the store.
Wrote(j) ==
    /\ call[j].kind = "saveCreditBalance"
    /\ call[j].pc = "done"
    /\ call[j].result = ResolvedNull
    /\ "main" \in DOMAIN credits
    /\ credits["main"] =
           EncryptedCreditRecord(call[j].balance, call[j].deviceFingerprint,
                                 call[j].timestamp, call[j].device)

\* C18: a saveCreditBalance that succeeded leaves exactly one record in the
\* store, under key 'main'; and a getCreditBalance that reads the record a
\* saveCreditBalance wrote, on the device that wrote it, resolves with a
\* record holding the saved balance, timestamp and fingerprint whose
\* integrity hash verifies.
C18_RoundTrip ==
    [][\A i \in CallIds :
          /\ (call[i].pc = "put" /\ call'[i].pc = "done"
                /\ call'[i].result = ResolvedNull)
             => DOMAIN credits' = {"main"}
          /\ Reads(i) =>
               \A j \in CallIds :
                   (Wrote(j) /\ call[j].device = call[i].device)
                   => LET result == call'[i].result IN
                        /\ result.settled = "resolved"
                        /\ result.value # Null
                        /\ result.value.balance = call[j].balance
                        /\ result.value.timestamp = call[j].timestamp
                        /\ result.value.deviceFingerprint = call[j].deviceFingerprint
                        /\ verifyIntegrity(result.value, result.value.integrityHash,
                                           call[i].device)]_vars

C18_Witness ==
    \E i, j, k \in CallIds :
        /\ call[k].kind = "saveCreditBalance" /\ call[k].pc = "done"
        /\ call[k].result = ResolvedNull /\ call[k].balance = 0
        /\ Wrote(j) /\ call[j].balance = 10 /\ j > k
        /\ call[i].kind = "getCreditBalance" /\ call[i].pc = "done"
        /\ call[i].device = call[j].device
        /\ call[i].result.settled = "resolved"
        /\ call[i].result.value # Null
        /\ call[i].result.value.balance = 10
        /\ DOMAIN credits = {"main"}

\* C19: addCredits(amount, source) has no sufficiency precondition: whatever
\* the balance, it raises the in-memory balance by exactly amount and goes on
\* to save; its save writes previousBalance + amount to the store; its
\* successful end appends exactly one 'purchase' transaction with the
\* amount, the source and the previousBalance it read.  When the call is the
\* only mutation since initialize loaded the balance, that transaction's
\* newBalance is previousBalance + amount, and the balance in memory, the
\* persisted record and the notified balance are that value.
C19_AddRaisesByAmount ==
    /\ [][\A i \in CallIds :
          /\ (Issued(i) /\ call'[i].kind = "add")
             => /\ call'[i].pc = "save"
                /\ call'[i].prev = currentBalance
                /\ currentBalance' = currentBalance + call'[i].amt
                /\ UNCHANGED <<credits, transactions, notified>>
          /\ (Steps(i) /\ call[i].mut = "add" /\ call[i].pc = "save"
                /\ call'[i].pc = "log")
             => /\ credits' = BalanceRecord(call[i].prev + call[i].amt)
                /\ UNCHANGED <<transactions, notified>>
          /\ (Steps(i) /\ call[i].mut = "add" /\ call'[i].outcome = "ok")
             => /\ call[i].pc = "log"
                /\ Len(transactions') = Len(transactions) + 1
                /\ SubSeq(transactions', 1, Len(transactions)) = transactions
                /\ transactions'[Len(transactions')].type = "purchase"
                /\ transactions'[Len(transactions')].amount = call[i].amt
                /\ transactions'[Len(transactions')].operation = call[i].op
                /\ transactions'[Len(transactions')].previousBalance = call[i].prev
                /\ notified' = Append(notified, currentBalance)
                /\ UNCHANGED <<currentBalance, credits>>]_vars
    /\ []((/\ nCalls = 2
           /\ call[1].kind = "init" /\ call[1].outcome = "ok"
           /\ call[2].kind = "add" /\ call[2].outcome = "ok"
           /\ call[2].ready)
          => /\ currentBalance = call[1].amt + call[2].amt
             /\ credits = BalanceRecord(call[1].amt + call[2].amt)
             /\ transactions =
                    <<Transaction(1, "purchase", call[2].amt, "purchase",
                                  call[1].amt, call[1].amt + call[2].amt)>>
             /\ notified = <<call[1].amt + call[2].amt>>)

\* A fresh install (no record, balance 0), then one addCredits(10, 'purchase').
C19_Witness ==
    /\ nCalls = 2
    /\ call[1].kind = "init" /\ call[1].outcome = "ok" /\ call[1].amt = 0
    /\ call[2].kind = "add" /\ call[2].outcome = "ok" /\ call[2].ready
    /\ call[2].amt = 10
    /\ currentBalance = 10
    /\ credits = BalanceRecord(10)
    /\ transactions = <<Transaction(1, "purchase", 10, "purchase", 0, 10)>>
\* C20: purchaseCredits calls addCredits only for a key of the catalog and
\* after the payment step succeeded.  Issuing a purchase changes no balance,
\* record or log, and a purchase that is refused ends with an error; the
\* step after the payment is addCredits(package_.credits) for a package of
\* the catalog; every purchase that succeeded left exactly one transaction,
\* of the package's credit amount.
C20_PurchaseGuarded ==
    /\ [][\A i \in CallIds :
          /\ (Issued(i) /\ call'[i].kind = "purchase")
             => /\ \/ call'[i].pc = "pay"
                   \/ call'[i].outcome \in {"invalidPackage", "paymentFailed"}
                /\ UNCHANGED <<currentBalance, credits, transactions, notified>>
          /\ (call[i].pc = "pay" /\ call'[i].pc # "pay")
             => /\ call[i].op \in CatalogKeys
                /\ call'[i].pc = "save"
                /\ currentBalance' = currentBalance + PackageCredits(call[i].op)
                /\ UNCHANGED <<credits, transactions, notified>>]_vars
    /\ [](/\ \A i \in CallIds :
               (call[i].kind = "purchase" /\ call[i].outcome = "ok")
                   => call[i].amt \in {PackageCredits(k) : k \in CatalogKeys}
          /\ Len(transactions)
                 = Cardinality({i \in CallIds : call[i].outcome = "ok"})
          /\ \A n \in 1..Len(transactions) :
                 /\ transactions[n].type = "purchase"
                 /\ transactions[n].amount \in
                        {PackageCredits(k) : k \in CatalogKeys})
\* C21: resetCredits(newBalance) tests nothing: whatever the balance, it sets
\* the in-memory balance to newBalance and goes on to save; its save writes
\* newBalance to the store; its successful end appends exactly one 'reset'
\* transaction with amount newBalance - previousBalance, operation
\* 'admin_reset', and both balances.  When the call is the only mutation
\* since initialize loaded the balance, memory, record, log and notified
\* balance all show newBalance.
C21_ResetSetsBalance ==
    /\ [][\A i \in CallIds :
          /\ (Issued(i) /\ call'[i].kind = "reset")
             => /\ call'[i].pc = "save"
                /\ call'[i].prev = currentBalance
                /\ currentBalance' = call'[i].amt
                /\ UNCHANGED <<credits, transactions, notified>>
          /\ (Steps(i) /\ call[i].mut = "reset" /\ call[i].pc = "save"
                /\ call'[i].pc = "log")
             => /\ credits' = BalanceRecord(call[i].amt)
                /\ UNCHANGED <<transactions, notified>>
          /\ (Steps(i) /\ call[i].mut = "reset" /\ call'[i].outcome = "ok")
             => /\ call[i].pc = "log"
                /\ transactions' = Append(transactions,
                       Transaction(txKey, "reset", call[i].amt - call[i].prev,
                                   "admin_reset", call[i].prev, call[i].amt))
                /\ notified' = Append(notified, currentBalance)
                /\ UNCHANGED <<currentBalance, credits>>]_vars
    /\ []((/\ nCalls = 2
           /\ call[1].kind = "init" /\ call[1].outcome = "ok"
           /\ call[2].kind = "reset" /\ call[2].outcome = "ok"
           /\ call[2].ready)
          => /\ currentBalance = call[2].amt
             /\ credits = BalanceRecord(call[2].amt)
             /\ transactions =
                    <<Transaction(1, "reset", call[2].amt - call[1].amt,
                                  "admin_reset", call[1].amt, call[2].amt)>>
             /\ notified = <<call[2].amt>>)

\* A returning user with balance 10, then resetCredits(5): delta -5.
C21_Witness ==
    /\ nCalls = 2
    /\ call[1].kind = "init" /\ call[1].outcome = "ok" /\ call[1].amt = 10
    /\ call[2].kind = "reset" /\ call[2].outcome = "ok" /\ call[2].ready
    /\ currentBalance = 5
    /\ credits = BalanceRecord(5)
    /\ transactions = <<Transaction(1, "reset", -5, "admin_reset", 10, 5)>>
C23_ListenersAllCalled ==
    [][/\ \A i \in CallIds :
            /\ (call[i].pc = "log" /\ call'[i].pc = "done"
                  /\ Len(transactions') > Len(transactions))
               => /\ call'[i].outcome = "ok"
                  /\ Len(calledBack') =
                         Len(calledBack) + Len(balanceChangeListeners)
                  /\ \A k \in 1..Len(balanceChangeListeners) :
                         calledBack'[Len(calledBack) + k] =
                             <<balanceChangeListeners[k], currentBalance>>
                  /\ SubSeq(calledBack', 1, Len(calledBack)) = calledBack
                  /\ currentBalance' = currentBalance
                  /\ balanceChangeListeners' = balanceChangeListeners
            /\ (call[i].pc \in {"save", "log"} /\ call'[i].outcome \in Thrown)
               => calledBack' = calledBack
       /\ (calledBack' # calledBack)
            => \E i \in CallIds : call[i].pc = "log" /\ call'[i].outcome = "ok"]_vars

\* The throwing listener was registered first, the display second; a
\* deductCredits(7) at balance 10 completed.
C23_Witness ==
    /\ balanceChangeListeners = <<"faulty", "display">>
    /\ call[1].kind = "deduct" /\ call[1].outcome = "ok"
    /\ currentBalance = 3
    /\ calledBack = << <<"faulty", 3>>, <<"display", 3>> >>
\* C24: a backup code is consumed exactly once.  useBackupCode returns true
\* only for a stored code that is unused, and marks it used; on a code that
\* is used (typed in any letter case) it returns false and leaves the store
\* as it is; no step of any operation makes a used code unused again; and no
\* code is ever redeemed by two calls.
C24_ConsumedOnce ==
    /\ [][/\ \A i \in CallIds :
              (call[i].pc = "use" /\ call'[i].pc = "done") =>
                 LET key == toUpperCase(call[i].op) IN
                   /\ (call'[i].outcome = "true")
                      => /\ key \in DOMAIN backupCodes
                         /\ ~backupCodes[key].used
                         /\ backupCodes'[key].used
                         /\ \A code \in DOMAIN backupCodes \ {key} :
                                backupCodes'[code] = backupCodes[code]
                   /\ (key \in DOMAIN backupCodes /\ backupCodes[key].used)
                      => /\ call'[i].outcome \in {"false", "useFailed"}
                         /\ backupCodes' = backupCodes
          /\ \A code \in DOMAIN backupCodes :
                (backupCodes[code].used /\ code \in DOMAIN backupCodes')
                   => backupCodes'[code].used]_vars
    /\ [](\A code \in Codes :
             Cardinality({i \in CallIds :
                 /\ call[i].kind = "use" /\ call[i].outcome = "true"
                 /\ toUpperCase(call[i].op) = code}) <= 1)
\* C25 as stated: a useBackupCode whose code is not stored, or is stored and
\* used, returns false unless the storage fails.
C25_BadCodeReturnsFalse ==
    [][\A i \in CallIds :
          (call'[i].kind = "use" /\ call[i].pc # "done" /\ call'[i].pc = "done")
             => LET key == toUpperCase(call'[i].op) IN
                  (key \notin DOMAIN backupCodes \/ backupCodes[key].used)
                     => call'[i].outcome \in {"false", "useFailed"}]_vars

\* C25, amended: a useBackupCode whose code is well formed (16 hexadecimal
\* characters in any letter case) and is not stored, or is stored and used,
\* returns false unless the storage fails, and leaves the store as it is; a
\* code that is not well formed is refused with the error 'Invalid backup
\* code format' before the store is read; no other error is raised.
C25_FalseForWellFormed ==
    [][\A i \in CallIds :
          (call'[i].kind = "use" /\ call[i].pc # "done" /\ call'[i].pc = "done")
             => LET key == toUpperCase(call'[i].op) IN
                  /\ (/\ isValidBackupCode(call'[i].op)
                      /\ (key \notin DOMAIN backupCodes \/ backupCodes[key].used))
                     => /\ call'[i].outcome \in {"false", "useFailed"}
                        /\ backupCodes' = backupCodes
                  /\ ~isValidBackupCode(call'[i].op)
                     => /\ call'[i].outcome = "invalidFormat"
                        /\ call[i].pc = "idle"
                        /\ backupCodes' = backupCodes
                  /\ call'[i].outcome \in
                        {"true", "false", "invalidFormat", "useFailed"}]_vars

\* A code was issued and redeemed; typed again in lower case it is refused
\* with false.
C25_Witness ==
    /\ call[1].kind = "generate" /\ call[1].outcome = "ok"
    /\ call[2].kind = "use" /\ call[2].op = "A1B2C3D4E5F60718"
    /\ call[2].outcome = "true"
    /\ call[3].kind = "use" /\ call[3].op = "a1b2c3d4e5f60718"
    /\ call[3].outcome = "false"
    /\ backupCodes["A1B2C3D4E5F60718"].used
\* C26: the transaction log is append-only.  A step in which no clearAllData
\* settles keeps every logged transaction, in place and with its fields; a
\* step appends at most one transaction, and its identifier is greater than
\* every identifier the store has handed out before (cleared entries
\* included); a logTransaction that fails ends its caller with the error.
C26_LogAppendOnly ==
    /\ [][/\ (\A i \in CallIds : ~(call[i].pc = "clear" /\ call'[i].pc = "done"))
              => /\ Len(transactions') >= Len(transactions)
                 /\ SubSeq(transactions', 1, Len(transactions)) = transactions
          /\ Len(transactions') <= Len(transactions) + 1
          /\ txKey' >= txKey
          /\ (Len(transactions') = Len(transactions) + 1)
              => /\ transactions'[Len(transactions')].id = txKey
                 /\ txKey' > txKey
          /\ \A i \in CallIds :
                (call[i].pc = "log" /\ call'[i].pc = "done"
                   /\ transactions' = transactions)
                => call'[i].outcome = "logFailed"]_vars
    /\ [](/\ \A n \in 1..Len(transactions) : transactions[n].id < txKey
          /\ \A m, n \in 1..Len(transactions) :
                m < n => transactions[m].id < transactions[n].id
          /\ "logFailed" \in Thrown)

\* A transaction was logged and wiped; the one logged after the wipe got
\* the next identifier.
C26_Witness ==
    /\ call[1].kind = "reset" /\ call[1].outcome = "ok"
    /\ call[2].kind = "clear" /\ call[2].outcome = "ok"
    /\ call[3].kind = "reset" /\ call[3].outcome = "ok"
    /\ Len(transactions) = 1
    /\ transactions[1].id = 2
    /\ txKey = 3
\* The smaller of two numbers.
Min(a, b) == IF a < b THEN a ELSE b

\* C27: a getTransactionHistory(limit) that resolves returns min(limit,
\* number of logged transactions) entries of the log, each once, in
\* non-increasing order of timestamp, and no transaction it leaves out is
\* newer than one it returns; the step changes nothing but the call.
C27_HistoryNewestFirst ==
    [][\A i \in CallIds :
          (call[i].pc = "cursor" /\ call'[i].outcome = "resolved")
             => LET result == call'[i].result
                    logged == {transactions[n] : n \in 1..Len(transactions)}
                    returned == {result[k] : k \in 1..Len(result)}
                IN /\ Len(result) = Min(call[i].limit, Len(transactions))
                   /\ returned \subseteq logged
                   /\ Cardinality(returned) = Len(result)
                   /\ \A k \in 1..(Len(result) - 1) :
                          result[k].timestamp >= result[k + 1].timestamp
                   /\ \A t \in logged \ returned : \A r \in returned :
                          t.timestamp <= r.timestamp
                   /\ UNCHANGED <<currentBalance, isInitialized, store,
                                  notified, aside>>]_vars

\* Two transactions are logged, the older one stored last; a history of
\* limit 1 returned the newer one.
C27_Witness ==
    \E i \in CallIds :
        /\ call[i].kind = "getTransactionHistory"
        /\ call[i].outcome = "resolved"
        /\ call[i].limit = 1
        /\ Len(transactions) = 2
        /\ transactions[1].timestamp > transactions[2].timestamp
        /\ call[i].result = <<transactions[1]>>
\* C28: every exportCreditData completes, and the snapshot it returns has
\* version '1.0'.
C28_ExportCompletes ==
    /\ \A i \in CallIds :
          (call[i].kind = "exportCreditData") ~> (call[i].pc = "done")
    /\ [](\A i \in CallIds :
             (call[i].kind = "exportCreditData" /\ call[i].pc = "done")
                => call[i].version = "1.0")
\* C29: getCostPreview(operation) for polish, translate, complete returns
\* cost 3, 7, 10, the balance in memory, sufficient = (balance >= cost) and
\* balanceAfter = balance - cost when sufficient, null when not; for another
\* operation name it throws; either way the step changes no balance, store,
\* listener or other call.
C29_PreviewIsProjection ==
    [][\A i \in CallIds :
          (Issued(i) /\ call'[i].kind = "getCostPreview")
             => LET operation == call'[i].operation
                    preview == call'[i].preview
                    cost == CASE operation = "polish" -> 3
                              [] operation = "translate" -> 7
                              [] operation = "complete" -> 10
                              [] OTHER -> 0
                IN /\ (operation \notin {"polish", "translate", "complete"})
                      => call'[i].outcome = "threw"
                   /\ (operation \in {"polish", "translate", "complete"})
                      => /\ call'[i].outcome = "returned"
                         /\ preview.operation = operation
                         /\ preview.cost = cost
                         /\ preview.currentBalance = currentBalance
                         /\ preview.sufficient = (currentBalance >= cost)
                         /\ preview.balanceAfter =
                               IF currentBalance >= cost
                               THEN [number |-> currentBalance - cost]
                               ELSE [null |-> TRUE]
                   /\ \A j \in CallIds \ {i} : call'[j] = call[j]
                   /\ UNCHANGED <<currentBalance, isInitialized, store,
                                  notified, aside>>]_vars

\* After resetCredits(5): the preview of translate is insufficient with
\* balanceAfter null, asked while nothing else runs.
C29_Witness ==
    \E i \in CallIds :
        /\ call[i].kind = "getCostPreview"
        /\ call[i].outcome = "returned"
        /\ call[i].operation = "translate"
        /\ ~call[i].preview.sufficient
        /\ call[i].preview.currentBalance = 5
        /\ call[i].preview.cost = 7
        /\ call[i].preview.balanceAfter = [null |-> TRUE]
\* The argument lists that differ from args in content only.
SameShape(kind, args) == {a \in MeteredArgs(kind) : Len(a) = Len(args)}

\* C30: the record a wrapped call appends is the record it would append
\* had its arguments had any other content (same wrapper, same operation,
\* same number of arguments, same times).
C30_MetadataIgnoresContent ==
    [][\A i \in CallIds :
          (/\ call[i].pc = "log"
           /\ call'[i].pc = "done"
           /\ Len(transactions') > Len(transactions))
             => \A other \in SameShape(call[i].kind, call[i].args) :
                   transactions'[Len(transactions')] =
                       TransactionWith(
                           Transaction(txKey, "deduction", call[i].amt,
                                       call[i].op, call[i].prev, call[i].val),
                           WrapperMetadata(call[i].kind, other,
                                           call[i].meta.timestamp),
                           Now)]_vars
\* C31: in one call of a function wrapped by wrapFunction or
\* wrapCompleteWorkflowFunction the original function f is invoked at most
\* once.
C31_InvokedAtMostOnce ==
    \A i \in CallIds :
        (Wrapped(i) /\ call[i].kind \in Retrying) => call[i].fCalls <= 1
\* C32: a call of a function wrapped by wrapFunction that returns to its
\* caller without a deduction having succeeded in it returns an absent
\* result: nobody obtains the result of f without being charged.
C32_NoResultWithoutCharge ==
    \A i \in CallIds :
        (/\ call[i].kind = "wrapFunction"
         /\ call[i].pc = "done"
         /\ call[i].outcome = "returned")
           => IF call[i].f2 = "none" THEN call[i].f1 = "null"
              ELSE call[i].f2 = "null"
\* C33: of two wrapped calls that both executed f, none whose f completed
\* with a result ends with its deduction refused for insufficient credits:
\* an operation that was executed is never left unpaid because an
\* overlapping call took the balance first.
C33_ExecutedIsCharged ==
    \A i \in CallIds :
        (/\ Wrapped(i) /\ call[i].pc = "done" /\ call[i].f1 = "value"
         /\ \E j \in CallIds \ {i} : Wrapped(j) /\ call[j].f1 = "value")
           => call[i].outcome # "insufficient"
\* C34: every transaction appended by deductCredits or addCredits is
\* self-consistent: newBalance = previousBalance - amount for a deduction,
\* newBalance = previousBalance + amount for a purchase.
C34_SelfConsistent ==
    \A k \in 1..Len(transactions) :
        LET t == transactions[k] IN
          /\ t.type = "deduction" => t.newBalance = t.previousBalance - t.amount
          /\ t.type = "purchase" => t.newBalance = t.previousBalance + t.amount
\* The outcomes of a call in which a storage request failed.
StorageFailures == {"saveFailed", "logFailed", "clearFailed"}

\* C35: ledger conservation.  From a fresh install, with the mutations
\* called one after the other and no storage request failing, the balance
\* between two calls is the signed sum of the transaction log.
C35_LedgerConservation ==
    (/\ Quiescent
     /\ \A i \in CallIds : call[i].outcome \notin StorageFailures)
    => currentBalance = LogSum(transactions)
\* C36: every promise of CreditUI.getCostPreview is eventually resolved
\* with the user's answer: no wrapped call waits for its preview for ever,
\* also when another preview was requested before it was answered.
C36_PreviewAnswered ==
    \A i \in CallIds :
        (call[i].pc = "preview") ~> (call[i].pc # "preview")
\* C37: a method wrapped by wrapFunction invokes the original method of
\* the object it is called on, however often and in whatever order the
\* objects were wrapped.
C37_CallsOwnMethod ==
    [][\A i \in CallIds :
          (/\ call[i].kind = "wrapFunction"
           /\ call[i].pc = "preview"
           /\ call'[i].pc = "f")
             => call[i].target = call[i].self]_vars
\* C38: whenever notifyBalanceChange delivers a balance below 50 to the
\* listener of CreditUI, the low-balance warning is shown after the step;
\* when it delivers a balance of 50 or more, the step does not show it.
C38_LowBalanceWarned ==
    [][\A k \in 1..Len(calledBack') :
          (k > Len(calledBack) /\ calledBack'[k][1] = "display")
             => IF calledBack'[k][2] < 50
                THEN lowBalanceWarning' = "shown"
                ELSE lowBalanceWarning' = lowBalanceWarning]_vars
\* C39: every step of generateBackupCodes and of useBackupCode leaves the
\* balance in memory, the persisted balance record, the transaction log and
\* its key generator and the settings as they are and calls no listener; it
\* removes no backup code; and a call that fails or rejects the code leaves
\* the backup codes as they are too.
C39_RecoveryFrame ==
    [][\A i \in CallIds :
          (call'[i] # call[i] /\ call'[i].kind \in {"generate", "use"})
             => /\ UNCHANGED <<currentBalance, credits, transactions, txKey,
                               notified, calledBack, creditSettings,
                               lowBalanceWarning>>
                /\ DOMAIN backupCodes \subseteq DOMAIN backupCodes'
                /\ (call'[i].outcome \in {"false", "invalidFormat",
                                          "useFailed", "saveCodesFailed"})
                      => backupCodes' = backupCodes]_vars

\* Codes were issued, one was accepted and then rejected; the balance,
\* its record, the empty log and the listeners are as they were at the start.
C39_Witness ==
    /\ Quiescent
    /\ \E i, j, k \in CallIds :
          /\ call[i].kind = "generate" /\ call[i].outcome = "ok"
          /\ call[j].kind = "use" /\ call[j].outcome = "true"
          /\ call[k].kind = "use" /\ call[k].outcome = "false"
          /\ call[k].op = call[j].op
    /\ currentBalance \in ReadyBalances
    /\ credits = BalanceRecord(currentBalance)
    /\ transactions = <<>>
    /\ notified = <<>>
    /\ backupCodes # <<>>
====
